---- MODULE Spec2Model ----
(***************************************************************************)
(* Record/replay session engine of timetracer (src/timetracer/session.py). *)
(*                                                                         *)
(* A TraceSession collects dependency events (add_event, finalize); the    *)
(* finalized session is turned into a cassette (to_cassette, written and   *)
(* read back by cassette I/O) and a ReplaySession serves the recorded      *)
(* events through a cursor (get_next_event, peek_next_event).              *)
(***************************************************************************)
EXTENDS Integers, Sequences, FiniteSets, TLC

\* ------------------------------------------------------------------ bounds
MaxEvents == 2          \* events recorded by one TraceSession
MaxPlugins == 2         \* entries of the live_plugins / mock_plugins lists
MaxRequests == 3        \* inbound requests in flight at the same time
MaxThreads == 2         \* callers inside add_event of one session at once
MaxDepth == 2           \* nesting depth of the JSON bodies given to redact_body
MaxCalls == 3           \* dependency calls a handler makes while it is replayed

\* ------------------------------------------------------------ value domains
None == "None"                                  \* None in a str | None field
SCHEMA_VERSION == "1.0"
SUPPORTED_SCHEMA_VERSIONS == <<"0.1", "1.0">>
NoEvent == [type |-> "NoneType"]                \* None where an event is expected

EventType == {"http.client", "db.query", "redis", "custom"}
CalledEventTypes == {"http.client", "db.query"} \* types the calls below use
RecordedMethods == {"GET"}
ActualMethods == {"GET", "POST"}
RecordedUrls == {"https://h/a", None}           \* EventSignature.url is optional
ActualUrls == {"https://h/a", "https://h/a?q=1", "https://h/b", None}
Statuses == {200, 500}
CallerEids == {0, 7}                            \* eid the caller put on the event
SignatureKeys == {"method", "url"}

\* DependencyEvent objects a plugin may build (eid as the caller set it):
\* http.client events with a URL, db.query events without one
DependencyEvent ==
    { e \in [eid : CallerEids,
             event_type : CalledEventTypes,
             signature : [method : RecordedMethods, url : RecordedUrls],
             result : [status : Statuses]] :
        (e.signature.url = None) <=> (e.event_type = "db.query") }

\* actual_signature dicts: any subset of the keys "method" and "url"
ActualSignatures ==
    UNION { { s \in [K -> ActualMethods \cup ActualUrls] :
                /\ ("method" \in K => s["method"] \in ActualMethods)
                /\ ("url" \in K => s["url"] \in ActualUrls) } :
            K \in SUBSET SignatureKeys }

EmptyDict == [k \in {} |-> None]

\* RequestSnapshot values the adapter captures (method and path)
NoRequest == [type |-> "NoneType"]              \* TraceSession.request = None
RequestSnapshots == {[method |-> "GET", path |-> "/checkout"]}
CassettePath == "/cassettes/GET__checkout.json" \* ReplaySession.cassette_path
NoResponse == [type |-> "NoneType"]             \* TraceSession.response = None
ResponseSnapshots == {[status |-> 200], [status |-> 500]}
NoErrorInfo == [none |-> TRUE]                  \* TraceSession._error_info = None
ErrorTypes == {"ValueError"}
ErrorMessages == {"boom"}
Tracebacks == {None, "Traceback ..."}           \* the optional traceback argument

\* hybrid replay: plugin names and the lists of a TraceConfig
PluginNames == {"http", "db", "redis"}
PluginLists ==
    { l \in UNION { [1..n -> PluginNames] : n \in 0..MaxPlugins } :
        \A i, j \in DOMAIN l : i # j => l[i] # l[j] }
NoConfig == [type |-> "NoneType"]               \* ReplaySession.config = None
TraceConfigs == [live_plugins : PluginLists, mock_plugins : PluginLists]

VARIABLES
    events,            \* TraceSession.events
    event_counter,     \* TraceSession._event_counter
    finalized,         \* TraceSession._finalized
    add_calls,         \* number of add_event calls that returned normally
    request,           \* TraceSession.request
    response,          \* TraceSession.response
    error_info,        \* TraceSession._is_error / _error_info
    mode,              \* "record": TraceSession live; "replay": ReplaySession live
    cassette,          \* ReplaySession.cassette
    strict,            \* ReplaySession.strict
    cursor,            \* ReplaySession._cursor
    consumed_events,   \* ReplaySession._consumed_events
    returned,          \* the events get_next_event has returned so far, in order
    last,              \* the last call made and what it returned or raised
    config,            \* ReplaySession.config (hybrid replay)
    current_session,   \* context._current_session: its value in each context
    req_pc,            \* where each request's _handle_record stands
    req_token,         \* the token each _handle_record got from set_session
    th_pc,             \* where each caller of add_event stands
    th_counter,        \* the counter value a caller has loaded for "+= 1"
    th_event,          \* the event object each caller passed in
    th_pos,            \* list position of each caller's event (0: not appended)
    invoked,           \* callers of add_event in the order they invoked it
    wr_pc,             \* where the plugin's record wrapper stands
    file,              \* the cassette file on disk
    hd_calls,          \* the dependency calls the replayed handler has made
    held,              \* the Cassette object a caller of to_cassette() holds
    lib_method,        \* the client libraries' methods, e.g. httpx.Client.send
    saved_original,    \* the plugins' _original_* globals
    plugin_enabled     \* the plugins' _enabled globals

trace_vars == <<events, event_counter, finalized, add_calls>>
snapshot_vars == <<request, response, error_info>>
replay_vars == <<cassette, strict, cursor, consumed_events, returned>>
context_vars == <<current_session, req_pc, req_token>>
thread_vars == <<th_pc, th_counter, th_event, th_pos, invoked>>
wrapper_vars == <<wr_pc>>
io_vars == <<file>>
handler_vars == <<hd_calls>>
held_vars == <<held>>
patch_vars == <<lib_method, saved_original, plugin_enabled>>
ext_vars == <<handler_vars, held_vars, patch_vars>>
aux_vars == <<config, context_vars, thread_vars, wrapper_vars, io_vars, ext_vars>>

vars == <<trace_vars, snapshot_vars, mode, replay_vars, last, aux_vars>>

\* ------------------------------------------------------------ TraceSession

\* session.py 139-141: the session overwrites the caller's eid
AssignEid_KeepCaller(event, counter) == event
AssignEid(event, counter) == [event EXCEPT !.eid = counter]

\* session.py 136: the finalize lock
FinalizeLock_Off(is_finalized) == FALSE
FinalizeLock(is_finalized) == is_finalized

\* TraceSession.add_event
AddEvent(event) ==
    /\ mode = "record"
    /\ IF FinalizeLock(finalized)
         THEN /\ last' = [op |-> "add_event", outcome |-> "RuntimeError"]
              /\ UNCHANGED trace_vars
         ELSE /\ Len(events) < MaxEvents
              /\ event_counter' = event_counter + 1
              /\ events' = Append(events, AssignEid(event, event_counter + 1))
              /\ add_calls' = add_calls + 1
              /\ last' = [op |-> "add_event", outcome |-> "ok"]
              /\ UNCHANGED finalized
    /\ UNCHANGED <<snapshot_vars, mode, replay_vars, aux_vars>>

\* TraceSession.finalize; "already" records whether the session was
\* finalized when the call was made
Finalize_OnceOnly ==
    /\ mode = "record"
    /\ finalized' = TRUE
    /\ last' = [op |-> "finalize",
                outcome |-> IF finalized THEN "RuntimeError" ELSE "ok",
                already |-> finalized]
    /\ UNCHANGED <<events, event_counter, add_calls, snapshot_vars, mode,
                   replay_vars, aux_vars>>
Finalize ==
    /\ mode = "record"
    /\ finalized' = TRUE
    /\ last' = [op |-> "finalize", outcome |-> "ok", already |-> finalized]
    /\ UNCHANGED <<events, event_counter, add_calls, snapshot_vars, mode,
                   replay_vars, aux_vars>>

\* TraceSession.set_response
SetResponse(snapshot) ==
    /\ mode = "record"
    /\ response' = snapshot
    /\ last' = [op |-> "set_response"]
    /\ UNCHANGED <<trace_vars, request, error_info, mode, replay_vars, aux_vars>>

\* TraceSession.mark_error, session.py 145-158
MarkError(error_type, error_message, traceback) ==
    /\ mode = "record"
    /\ error_info' =
          [is_error |-> TRUE,
           info |-> IF traceback # None /\ traceback # ""
                      THEN [type |-> error_type, message |-> error_message,
                            traceback |-> traceback]
                      ELSE [type |-> error_type, message |-> error_message]]
    /\ last' = [op |-> "mark_error"]
    /\ UNCHANGED <<trace_vars, request, response, mode, replay_vars, aux_vars>>

\* TraceSession.set_request
SetRequest(snapshot) ==
    /\ mode = "record"
    /\ request' = snapshot
    /\ last' = [op |-> "set_request"]
    /\ UNCHANGED <<trace_vars, response, error_info, mode, replay_vars, aux_vars>>

\* session.py 175-184: the session metadata, taken from the config
SessionMeta ==
    [id |-> "3f2a", recorded_at |-> "2026-01-01T00:00:00Z", service |-> "svc",
     env |-> "dev", framework |-> "fastapi", timetracer_version |-> "1.4.0",
     python_version |-> "3.12", git_sha |-> None]

\* session.py 198-207: the applied policies, taken from the config
AppliedPolicies ==
    [redaction_mode |-> "default", redaction_rules |-> <<"authorization", "cookie">>,
     max_body_kb |-> 64, store_request_body |-> "on_error",
     store_response_body |-> "on_error", sample_rate |-> 1, errors_only |-> FALSE]

\* session.py 186-190: event_counts[t] = event_counts.get(t, 0) + 1
RECURSIVE EventCounts(_)
EventCounts_Presence(evs) ==
    [t \in {evs[i].event_type : i \in DOMAIN evs} |-> 1]
EventCounts(evs) ==
    IF evs = << >>
      THEN EmptyDict
      ELSE LET counts == EventCounts(SubSeq(evs, 1, Len(evs) - 1))
               t == evs[Len(evs)].event_type
           IN [k \in DOMAIN counts \cup {t} |->
                 IF k = t
                   THEN (IF t \in DOMAIN counts THEN counts[t] ELSE 0) + 1
                   ELSE counts[k]]

\* TraceSession.to_cassette;
\* session.py 212: "self.request or RequestSnapshot(method='', path='')"
ToCassette(session_events, session_request, session_response, session_error) ==
    [schema_version |-> SCHEMA_VERSION,
     session |-> SessionMeta,
     request |-> IF session_request = NoRequest
                   THEN [method |-> "", path |-> ""]
                   ELSE session_request,
     response |-> IF session_response = NoResponse
                    THEN [status |-> 0]
                    ELSE session_response,
     events |-> session_events,
     policies |-> AppliedPolicies,
     stats |-> [event_counts |-> EventCounts(session_events),
                total_events |-> Len(session_events)],
     error_info |-> IF session_error.is_error THEN session_error.info
                                              ELSE NoErrorInfo]

\* write_cassette finalizes the session and serializes to_cassette(); the
\* adapter reads the file back and constructs ReplaySession(cassette, strict)
StartReplay(strict_replay) ==
    /\ mode = "record"
    /\ finalized' = TRUE
    /\ cassette' = ToCassette(events, request, response, error_info)
    /\ strict' = strict_replay
    /\ cursor' = 0
    /\ consumed_events' = << >>
    /\ returned' = << >>
    /\ mode' = "replay"
    /\ last' = [op |-> "ReplaySession"]
    /\ UNCHANGED <<events, event_counter, add_calls, snapshot_vars, aux_vars>>

\* to_cassette() as a call whose result the caller keeps: session.py 214,
\* "events=self.events", hands the session's own list object to the
\* Cassette, so the Cassette's events are whatever that list holds
NoCassette == [type |-> "NoneType"]
SessionEventsList == [ref |-> "TraceSession.events"]
to_cassette(session_events, session_request, session_response, session_error) ==
    [ToCassette(session_events, session_request, session_response, session_error)
       EXCEPT !.events = SessionEventsList]

\* the list a Cassette's events field refers to
CassetteEvents(cas, session_events) ==
    IF cas.events = SessionEventsList THEN session_events ELSE cas.events

InitHeld == held = NoCassette

ToCassetteCall ==
    /\ mode = "record"
    /\ held' = to_cassette(events, request, response, error_info)
    /\ last' = [op |-> "to_cassette", finalized |-> finalized]
    /\ UNCHANGED <<trace_vars, snapshot_vars, mode, replay_vars, config,
                   context_vars, thread_vars, wrapper_vars, io_vars, handler_vars, patch_vars>>

\* ----------------------------------------------------------- ReplaySession

\* session.py 333
Exhausted_OffByOne(cur, evs) == cur + 1 >= Len(evs)
Exhausted(cur, evs) == cur >= Len(evs)

\* session.py 348
TypeDiffers_Never(expected, event_type) == FALSE
TypeDiffers(expected, event_type) == expected.event_type # event_type

\* session.py 363-369: field -> (recorded value, actual value)
Mismatches_MethodOnly(expected_sig, actual_signature) ==
    [k \in { f \in {"method"} :
               f \in DOMAIN actual_signature /\ expected_sig[f] # actual_signature[f] }
       |-> <<expected_sig[k], actual_signature[k]>>]
Mismatches(expected_sig, actual_signature) ==
    [k \in { f \in SignatureKeys :
               f \in DOMAIN actual_signature /\ expected_sig[f] # actual_signature[f] }
       |-> <<expected_sig[k], actual_signature[k]>>]

\* session.py 371
SignatureRaises_AlsoLenient(mismatches, is_strict) == DOMAIN mismatches # {}
SignatureRaises(mismatches, is_strict) == DOMAIN mismatches # {} /\ is_strict

\* exceptions.py 48-64: "expected or {}", "actual or {}"
ReplayMismatchError(message, cassette_path, endpoint, event_index, expected, actual, hint) ==
    [type |-> "ReplayMismatchError", message |-> message,
     cassette_path |-> cassette_path, endpoint |-> endpoint,
     event_index |-> event_index, expected |-> expected, actual |-> actual,
     hint |-> hint]

\* session.py 338, 353, 375: f"{request.method} {request.path}"
Endpoint(cas) == cas.request.method \o " " \o cas.request.path

\* session.py 335-342
NoMoreEventsError_NoActual(cas, path, event_type, cur, actual_signature) ==
    ReplayMismatchError(
        <<"Unexpected ", event_type, " call: ", "no more events", " in cassette">>,
        path, Endpoint(cas), cur, EmptyDict, EmptyDict,
        "Your code is making more dependency calls than recorded. Re-record the cassette.")
NoMoreEventsError(cas, path, event_type, cur, actual_signature) ==
    ReplayMismatchError(
        <<"Unexpected ", event_type, " call: ", "no more events", " in cassette">>,
        path, Endpoint(cas), cur, EmptyDict, actual_signature,
        "Your code is making more dependency calls than recorded. Re-record the cassette.")

\* session.py 350-358
TypeMismatchError_OneBased(cas, path, expected, event_type, cur) ==
    ReplayMismatchError(
        <<"Event type mismatch at event #", ToString(cur + 1)>>,
        path, Endpoint(cas), cur + 1, [k \in {"type"} |-> expected.event_type],
        [k \in {"type"} |-> event_type],
        "Call order or type has changed. Re-record the cassette.")
TypeMismatchError(cas, path, expected, event_type, cur) ==
    ReplayMismatchError(
        <<"Event type mismatch at event #", ToString(cur)>>,
        path, Endpoint(cas), cur, [k \in {"type"} |-> expected.event_type],
        [k \in {"type"} |-> event_type],
        "Call order or type has changed. Re-record the cassette.")

\* session.py 372-380
SignatureMismatchError(cas, path, event_type, cur, mismatches) ==
    ReplayMismatchError(
        <<event_type, " mismatch at event #", ToString(cur)>>,
        path, Endpoint(cas), cur, [k \in DOMAIN mismatches |-> mismatches[k][1]],
        [k \in DOMAIN mismatches |-> mismatches[k][2]],
        "Your dependency call changed (endpoint/method). Re-record cassette or disable strict replay.")

\* "raise": the error propagates, the session fields stay as they are
Raise(error, cur, consumed) ==
    [outcome |-> "raise", error |-> error, cursor |-> cur, consumed |-> consumed]
\* session.py 343, 359: "return None"
ReturnNone_SkipEvent(cur, consumed) ==
    [outcome |-> "return", value |-> NoEvent, cursor |-> cur + 1, consumed |-> consumed]
ReturnNone(cur, consumed) ==
    [outcome |-> "return", value |-> NoEvent, cursor |-> cur, consumed |-> consumed]

\* session.py 382-386: consume the event at the cursor and return it
Consume_NoAdvance(evs, cur, consumed) ==
    [outcome |-> "return", value |-> evs[cur + 1],
     cursor |-> cur, consumed |-> Append(consumed, cur)]
Consume_Rewind(evs, cur, consumed) ==
    [outcome |-> "return", value |-> evs[cur + 1],
     cursor |-> IF cur + 1 = Len(evs) THEN 0 ELSE cur + 1,
     consumed |-> Append(consumed, cur)]
Consume_ReturnFirst(evs, cur, consumed) ==
    [outcome |-> "return", value |-> evs[1],
     cursor |-> cur + 1, consumed |-> Append(consumed, cur)]
Consume_PostIndex(evs, cur, consumed) ==
    [outcome |-> "return", value |-> evs[cur + 1],
     cursor |-> cur + 1, consumed |-> Append(consumed, cur + 1)]
Consume(evs, cur, consumed) ==
    [outcome |-> "return", value |-> evs[cur + 1],
     cursor |-> cur + 1, consumed |-> Append(consumed, cur)]

\* session.py 312-386
get_next_event(cas, path, is_strict, cur, consumed, event_type, actual_signature) ==
    LET evs == cas.events IN
    IF Exhausted(cur, evs)
      THEN IF is_strict
             THEN Raise(NoMoreEventsError(cas, path, event_type, cur, actual_signature),
                        cur, consumed)
             ELSE ReturnNone(cur, consumed)
      ELSE LET expected == evs[cur + 1] IN
           IF TypeDiffers(expected, event_type)
             THEN IF is_strict
                    THEN Raise(TypeMismatchError(cas, path, expected, event_type, cur),
                               cur, consumed)
                    ELSE ReturnNone(cur, consumed)
             ELSE LET mismatches == Mismatches(expected.signature, actual_signature) IN
                  IF SignatureRaises(mismatches, is_strict)
                    THEN Raise(SignatureMismatchError(cas, path, event_type, cur,
                                                      mismatches),
                               cur, consumed)
                    ELSE Consume(evs, cur, consumed)

\* ------------------------------------------------- replay/matching.py

\* dict.get(key): None for an absent key
Get(dict, key) == IF key \in DOMAIN dict THEN dict[key] ELSE None

\* urllib.parse.urlparse on the URLs of the model
urlparse(url) ==
    CASE url = "https://h/a" ->
           [scheme |-> "https", netloc |-> "h", path |-> "/a", query |-> ""]
      [] url = "https://h/a?q=1" ->
           [scheme |-> "https", netloc |-> "h", path |-> "/a", query |-> "q=1"]
      [] url = "https://h/b" ->
           [scheme |-> "https", netloc |-> "h", path |-> "/b", query |-> ""]

\* matching.py 15-22
normalize_url(url) ==
    LET parsed == urlparse(url) IN
    parsed.scheme \o "://" \o parsed.netloc \o parsed.path

\* "if url" : None and the empty string are falsy
Truthy(value) == value # None /\ value # ""

\* matching.py 32-73 (check_body_hash left at its default, False)
signatures_match(expected, actual) ==
    LET actual_method == Get(actual, "method")
        expected_url == IF Truthy(expected.url) THEN normalize_url(expected.url) ELSE None
        actual_url == IF Truthy(Get(actual, "url"))
                        THEN normalize_url(Get(actual, "url")) ELSE None
        method_mismatch ==
            IF expected.method # actual_method
              THEN << <<"method: expected ", expected.method, ", got ", actual_method>> >>
              ELSE << >>
        url_mismatch ==
            IF expected_url # actual_url
              THEN << <<"url: expected ", expected_url, ", got ", actual_url>> >>
              ELSE << >>
        mismatches == method_mismatch \o url_mismatch
    IN [matches |-> Len(mismatches) = 0, mismatches |-> mismatches]

\* ReplaySession.get_next_event
GetNextEvent(event_type, actual_signature) ==
    /\ mode = "replay"
    /\ LET r == get_next_event(cassette, CassettePath, strict, cursor,
                               consumed_events, event_type, actual_signature) IN
         /\ cursor' = r.cursor
         /\ consumed_events' = r.consumed
         /\ returned' = IF r.outcome = "return" /\ r.value # NoEvent
                           THEN Append(returned, r.value) ELSE returned
         /\ last' = IF r.outcome = "raise"
                       THEN [op |-> "get_next_event", event_type |-> event_type,
                             actual_signature |-> actual_signature,
                             outcome |-> "raise", error |-> r.error]
                       ELSE [op |-> "get_next_event", event_type |-> event_type,
                             actual_signature |-> actual_signature,
                             outcome |-> "return", value |-> r.value]
    /\ UNCHANGED <<trace_vars, snapshot_vars, mode, cassette, strict, aux_vars>>

\* session.py 292-310
peek_next_event_NoFilter(evs, cur, event_type) ==
    IF cur >= Len(evs) THEN NoEvent ELSE evs[cur + 1]
peek_next_event(evs, cur, event_type) ==
    IF cur >= Len(evs) THEN NoEvent
    ELSE IF event_type # None /\ evs[cur + 1].event_type # event_type THEN NoEvent
    ELSE evs[cur + 1]

\* ReplaySession.peek_next_event
PeekNextEvent(event_type) ==
    /\ mode = "replay"
    /\ last' = [op |-> "peek_next_event", event_type |-> event_type,
                outcome |-> "return",
                value |-> peek_next_event(cassette.events, cursor, event_type)]
    /\ UNCHANGED <<trace_vars, snapshot_vars, mode, replay_vars, aux_vars>>

\* session.py 287-290
has_more_events(evs, cur) == cur < Len(evs)

\* session.py 388-390: events[cursor:]
get_unconsumed_events_SkipOne(evs, cur) == SubSeq(evs, cur + 2, Len(evs))
get_unconsumed_events(evs, cur) == SubSeq(evs, cur + 1, Len(evs))

\* ReplaySession.get_unconsumed_events
GetUnconsumedEvents ==
    /\ mode = "replay"
    /\ last' = [op |-> "get_unconsumed_events", outcome |-> "return",
                value |-> get_unconsumed_events(cassette.events, cursor)]
    /\ UNCHANGED <<trace_vars, snapshot_vars, mode, replay_vars, aux_vars>>

\* "x in list"
InList(x, list) == \E i \in DOMAIN list : list[i] = x

\* config.py 294-316
should_mock_plugin_MockFirst(cfg, plugin_name) ==
    IF Len(cfg.mock_plugins) > 0 THEN InList(plugin_name, cfg.mock_plugins)
    ELSE IF Len(cfg.live_plugins) > 0 /\ InList(plugin_name, cfg.live_plugins) THEN FALSE
    ELSE TRUE
should_mock_plugin(cfg, plugin_name) ==
    IF Len(cfg.live_plugins) > 0 /\ InList(plugin_name, cfg.live_plugins) THEN FALSE
    ELSE IF Len(cfg.mock_plugins) > 0 THEN InList(plugin_name, cfg.mock_plugins)
    ELSE TRUE

\* ReplaySession.should_mock_plugin, session.py 265-280
ShouldMockPlugin(plugin_name) ==
    /\ mode = "replay"
    /\ last' = [op |-> "should_mock_plugin", plugin_name |-> plugin_name,
                outcome |-> "return",
                value |-> IF config = NoConfig THEN TRUE
                          ELSE should_mock_plugin(config, plugin_name)]
    /\ UNCHANGED <<trace_vars, snapshot_vars, mode, replay_vars, aux_vars>>

\* httpx_plugin.py 316-325: the signature dict the replay path of a plugin
\* builds for a call, from the same _make_signature as the record path
make_signature_dict(sig) == [method |-> sig.method, url |-> sig.url]

\* ------------------------------------------------------------- context.py

Requests == 1 .. MaxRequests            \* each runs in an execution context
Contexts == 0 .. MaxRequests            \* of its own; 0: outside any request
NoSession == [type |-> "NoneType"]      \* ContextVar default=None
NoToken == [type |-> "NoToken"]
TraceSession(r) == [owner |-> r]        \* the session request r constructs

\* ContextVar.get / set / reset: the variable has one value per context, a
\* token remembers the value that set() replaced
ContextVarGet(var, ctx) == var[ctx]
ContextVarSet_Global(var, ctx, value) == [c \in DOMAIN var |-> value]
ContextVarSet(var, ctx, value) == [var EXCEPT ![ctx] = value]
ContextVarReset_Clear(var, ctx, token) == [var EXCEPT ![ctx] = NoSession]
ContextVarReset(var, ctx, token) == [var EXCEPT ![ctx] = token.old_value]

InitContext ==
    /\ current_session = [c \in Contexts |-> NoSession]
    /\ req_pc = [r \in Requests |-> "new"]
    /\ req_token = [r \in Requests |-> NoToken]

\* _handle_record up to its first await: session = TraceSession(...);
\* token = set_session(session)
HandleRecordSetSession(r) ==
    /\ req_pc[r] = "new"
    /\ req_token' = [req_token EXCEPT
                       ![r] = [old_value |-> ContextVarGet(current_session, r)]]
    /\ current_session' = ContextVarSet(current_session, r, TraceSession(r))
    /\ req_pc' = [req_pc EXCEPT ![r] = "capturing"]
    /\ last' = [op |-> "set_session", context |-> r]
    /\ UNCHANGED <<trace_vars, snapshot_vars, mode, replay_vars, config,
                   thread_vars, wrapper_vars, io_vars, ext_vars>>

\* _handle_record from the captured request to "await self.app(...)"
HandleRecordCallApp(r) ==
    /\ req_pc[r] = "capturing"
    /\ req_pc' = [req_pc EXCEPT ![r] = "in_app"]
    /\ last' = [op |-> "call_app", context |-> r]
    /\ UNCHANGED <<trace_vars, snapshot_vars, mode, replay_vars, config,
                   current_session, req_token, thread_vars, wrapper_vars, io_vars, ext_vars>>

\* _handle_record after the app returned or raised: the outer finally runs
\* reset_session(token)
HandleRecordResetSession(r) ==
    /\ req_pc[r] = "in_app"
    /\ current_session' = ContextVarReset(current_session, r, req_token[r])
    /\ req_token' = [req_token EXCEPT ![r] = NoToken]
    /\ req_pc' = [req_pc EXCEPT ![r] = "done"]
    /\ last' = [op |-> "reset_session", context |-> r]
    /\ UNCHANGED <<trace_vars, snapshot_vars, mode, replay_vars, config,
                   thread_vars, wrapper_vars, io_vars, ext_vars>>

\* get_current_session called by code running in context ctx
GetCurrentSession(ctx) ==
    /\ last' = [op |-> "get_current_session", context |-> ctx,
                result |-> ContextVarGet(current_session, ctx)]
    /\ UNCHANGED <<trace_vars, snapshot_vars, mode, replay_vars, aux_vars>>

\* the handlers that install a session around application code: the
\* middleware's _handle_record and _handle_replay, and the pytest fixture's
\* _replay_context; the session object each of them constructs
HandlerKinds == {"_handle_record", "_handle_replay", "_replay_context"}
SessionOf(r, kind) == [owner |-> r, kind |-> kind]
CallerContext == 0

\* "session = ...; token = set_session(session)", then the try block with
\* the application code; handler r runs in the caller's context, directly
\* (r = 1, or again after it finished) or inside the application code of
\* handler r - 1
HandlerSetSession(r, kind) ==
    /\ req_pc[r] \in {"new", "done"}
    /\ IF r = 1 THEN TRUE ELSE req_pc[r - 1] = "in_app"
    /\ req_token' = [req_token EXCEPT
                       ![r] = [old_value |-> ContextVarGet(current_session, CallerContext)]]
    /\ current_session' = ContextVarSet(current_session, CallerContext, SessionOf(r, kind))
    /\ req_pc' = [req_pc EXCEPT ![r] = "in_app"]
    /\ last' = [op |-> "set_session", context |-> CallerContext, request |-> r,
                kind |-> kind]
    /\ UNCHANGED <<trace_vars, snapshot_vars, mode, replay_vars, config,
                   thread_vars, wrapper_vars, io_vars, ext_vars>>

\* the application code returned or raised (nothing it started is still
\* running): "finally: reset_session(token)", then the return or the raise
HandlerResetSession(r, raised) ==
    /\ req_pc[r] = "in_app"
    /\ IF r = MaxRequests THEN TRUE ELSE req_pc[r + 1] # "in_app"
    /\ current_session' = ContextVarReset(current_session, CallerContext, req_token[r])
    /\ req_token' = [req_token EXCEPT ![r] = NoToken]
    /\ req_pc' = [req_pc EXCEPT ![r] = "done"]
    /\ last' = [op |-> "reset_session", context |-> CallerContext, request |-> r,
                outcome |-> IF raised THEN "raise" ELSE "return"]
    /\ UNCHANGED <<trace_vars, snapshot_vars, mode, replay_vars, config,
                   thread_vars, wrapper_vars, io_vars, ext_vars>>

\* ------------------------------ TraceSession.add_event, step by step

\* add_event takes no lock: a caller can be preempted between any two of
\* its steps (the check of _finalized, the load and the store of
\* "_event_counter += 1", "event.eid = self._event_counter", and
\* "self.events.append(event)")
Threads == 1 .. MaxThreads
ThreadEvent ==
    [eid |-> 0, event_type |-> "http.client",
     signature |-> [method |-> "GET", url |-> "https://h/a"],
     result |-> [status |-> 200]]

InitThreads ==
    /\ th_pc = [t \in Threads |-> "idle"]
    /\ th_counter = [t \in Threads |-> 0]
    /\ th_event = [t \in Threads |-> NoEvent]
    /\ th_pos = [t \in Threads |-> 0]
    /\ invoked = << >>

ThreadStep(t, from, to) ==
    /\ mode = "record"
    /\ th_pc[t] = from
    /\ th_pc' = [th_pc EXCEPT ![t] = to]
    /\ last' = [op |-> "add_event_step", thread |-> t, at |-> to]
    /\ UNCHANGED <<add_calls, snapshot_vars, mode, replay_vars, config,
                   context_vars, wrapper_vars, io_vars, ext_vars>>

\* the call: session.add_event(event)
AddEventInvoke(t) ==
    /\ ThreadStep(t, "idle", "check")
    /\ th_event' = [th_event EXCEPT ![t] = ThreadEvent]
    /\ invoked' = Append(invoked, t)
    /\ UNCHANGED <<events, event_counter, finalized, th_counter, th_pos>>

\* session.py 136-137: if self._finalized: raise RuntimeError
AddEventCheck(t) ==
    /\ ThreadStep(t, "check", IF FinalizeLock(finalized) THEN "raised" ELSE "load")
    /\ UNCHANGED <<events, event_counter, finalized, th_counter, th_event,
                   th_pos, invoked>>

\* session.py 140, first half: read self._event_counter
AddEventLoad(t) ==
    /\ ThreadStep(t, "load", "store")
    /\ th_counter' = [th_counter EXCEPT ![t] = event_counter]
    /\ UNCHANGED <<events, event_counter, finalized, th_event, th_pos, invoked>>

\* session.py 140, second half: write the value read plus one
AddEventStore(t) ==
    /\ ThreadStep(t, "store", "assign")
    /\ event_counter' = th_counter[t] + 1
    /\ UNCHANGED <<events, finalized, th_counter, th_event, th_pos, invoked>>

\* session.py 141: event.eid = self._event_counter
AddEventAssign(t) ==
    /\ ThreadStep(t, "assign", "append")
    /\ th_event' = [th_event EXCEPT ![t] = AssignEid(th_event[t], event_counter)]
    /\ UNCHANGED <<events, event_counter, finalized, th_counter, th_pos, invoked>>

\* session.py 143: self.events.append(event)
AddEventAppend(t) ==
    /\ ThreadStep(t, "append", "done")
    /\ events' = Append(events, th_event[t])
    /\ th_pos' = [th_pos EXCEPT ![t] = Len(events) + 1]
    /\ UNCHANGED <<event_counter, finalized, th_counter, th_event, invoked>>

\* ------------------------------------ plugins/httpx_plugin.py, recording

\* what the real outbound call can do: return a response, or raise; an
\* exception is or is not a subclass of Exception (asyncio.CancelledError
\* derives from BaseException only)
OutboundExceptions ==
    { [type |-> "ConnectError", message |-> "refused", is_exception |-> TRUE],
      [type |-> "CancelledError", message |-> "", is_exception |-> FALSE] }
OutboundOutcomes ==
    { [kind |-> "return", status |-> st] : st \in Statuses } \cup
    { [kind |-> "raise", exc |-> e] : e \in OutboundExceptions }

\* httpx_plugin.py 160-162: "except Exception as e: error_info = (...); raise"
ErrorInfo(outbound) ==
    IF outbound.kind = "raise" /\ outbound.exc.is_exception
      THEN <<outbound.exc.type, outbound.exc.message>>
      ELSE << >>                                \* error_info stays None

\* _make_result; EventResult.status = None is the absent field
make_result(outbound, err_info) ==
    IF err_info # << >>
      THEN [error |-> err_info[2], error_type |-> err_info[1]]
      ELSE IF outbound.kind = "raise"           \* response is None
             THEN [error |-> None, error_type |-> None]
             ELSE [status |-> outbound.status, error |-> None, error_type |-> None]

\* _build_event
build_event(outbound, err_info) ==
    [eid |-> 0, event_type |-> "http.client",
     signature |-> [method |-> "GET", url |-> "https://h/a"],
     result |-> make_result(outbound, err_info)]

InitWrapper == wr_pc = "idle"

\* _record_async_request up to "await _original_async_send(...)"
RecordRequestSend ==
    /\ mode = "record"
    /\ wr_pc = "idle"
    /\ Len(events) < MaxEvents
    /\ wr_pc' = "in_flight"
    /\ last' = [op |-> "record_request", at |-> "send"]
    /\ UNCHANGED <<trace_vars, snapshot_vars, mode, replay_vars, config,
                   context_vars, thread_vars, io_vars, ext_vars>>

\* _record_async_request after the await: the except clause, then the
\* finally clause (build the event, session.add_event(event)), then the
\* return or the pending raise; an exception raised inside the finally
\* clause replaces the pending one
RecordRequestFinish(outbound) ==
    /\ mode = "record"
    /\ wr_pc = "in_flight"
    /\ wr_pc' = "idle"
    /\ IF FinalizeLock(finalized)
         THEN /\ last' = [op |-> "record_request", at |-> "finish",
                          outbound |-> outbound,
                          outcome |-> [kind |-> "raise",
                                       exc |-> [type |-> "RuntimeError",
                                                message |-> "finalized",
                                                is_exception |-> TRUE]]]
              /\ UNCHANGED trace_vars
         ELSE /\ event_counter' = event_counter + 1
              /\ events' = Append(events,
                                  AssignEid(build_event(outbound, ErrorInfo(outbound)),
                                            event_counter + 1))
              /\ add_calls' = add_calls + 1
              /\ last' = [op |-> "record_request", at |-> "finish",
                          outbound |-> outbound, outcome |-> outbound]
              /\ UNCHANGED finalized
    /\ UNCHANGED <<snapshot_vars, mode, replay_vars, config, context_vars,
                   thread_vars, io_vars, ext_vars>>

\* ------------------------------------------------- policies/redaction.py

\* constants.py: Redaction (an excerpt of the two frozensets)
SENSITIVE_HEADERS == {"authorization", "cookie", "set-cookie", "x-api-key"}
SENSITIVE_BODY_KEYS == {"password", "passwd", "secret", "token"}
REDACTED_VALUE_LikeEmail == "a@b.co"
REDACTED_VALUE == "[REDACTED]"

\* str.lower() on the header names and body keys used here
Lower(s) ==
    CASE s = "Authorization" -> "authorization"
      [] s = "Content-Type" -> "content-type"
      [] s = "X-Trace" -> "x-trace"
      [] s = "RECORD" -> "record"
      [] s = "Always" -> "always"
      [] s = "GZIP" -> "gzip"
      [] OTHER -> s
\* str.upper() on the PII type names
Upper(s) ==
    CASE s = "email" -> "EMAIL"
      [] s = "ssn" -> "SSN"
      [] OTHER -> s
\* "needle in haystack" on the body keys used here
Contains(haystack, needle) ==
    \/ haystack = needle
    \/ haystack = "user_token" /\ needle = "token"

\* header maps: names in mixed case, sensitive and not
HeaderNames == {"Authorization", "Content-Type", "cookie", "X-Trace"}
HeaderValues == {"Bearer xyz", "application/json"}
HeaderMaps == UNION { [names -> HeaderValues] : names \in SUBSET HeaderNames }
RedactModes == {"drop", "mask"}
AdditionalSensitive == { {}, {"X-Trace"} }

\* redact_headers, redaction.py 16-48
redact_headers_CaseSensitive(headers, redact_mode, additional_sensitive) ==
    LET sensitive == SENSITIVE_HEADERS \cup {Lower(h) : h \in additional_sensitive}
    IN [key \in {k \in DOMAIN headers : k \notin sensitive \/ redact_mode = "mask"} |->
          IF key \in sensitive THEN REDACTED_VALUE ELSE headers[key]]
redact_headers(headers, redact_mode, additional_sensitive) ==
    LET sensitive == SENSITIVE_HEADERS \cup {Lower(h) : h \in additional_sensitive}
    IN [key \in {k \in DOMAIN headers : Lower(k) \notin sensitive \/ redact_mode = "mask"} |->
          IF Lower(key) \in sensitive THEN REDACTED_VALUE ELSE headers[key]]

\* JSON-like values: a string, an int, null, a mapping, a list
BodyStrings ==
    {"alice",                               \* nothing to mask
     "eyJhbGciOi.eyJzdWIiOi.c2lnbmF0",      \* a JWT
     "bearer abc123",                       \* a bearer token
     "a@b.co",                              \* an e-mail address
     "123-45-6789",                         \* a social security number
     "[REDACTED]", "Bearer [REDACTED]",     \* the markers
     "[REDACTED:EMAIL]"}
BodyKeys == {"password", "user_token", "name"}
Scalars == {[str |-> s] : s \in BodyStrings} \cup {[int |-> 1], [null |-> TRUE]}
RECURSIVE JsonValues(_)
JsonValues(depth) ==
    IF depth = 0
      THEN Scalars
      ELSE LET sub == JsonValues(depth - 1)
           IN sub \cup {[dict |-> (k :> v)] : k \in BodyKeys, v \in sub}
                  \cup {[list |-> <<v>>] : v \in sub}
                  \cup {[dict |-> ("password" :> v1) @@ ("name" :> v2)] :
                          v1 \in Scalars, v2 \in {[str |-> "alice"]}}

\* _is_sensitive_key: exact or substring match on the lower-cased key
_is_sensitive_key(key, sensitive_keys) ==
    LET key_lower == Lower(key)
    IN \/ key_lower \in sensitive_keys
       \/ \E sensitive \in sensitive_keys : Contains(key_lower, sensitive)

\* detect_pii on the strings used here: the e-mail and SSN patterns match
\* the two PII strings, no pattern matches a marker or the other strings
detect_pii(value) ==
    CASE value = "a@b.co" -> "email"
      [] value = "123-45-6789" -> "ssn"
      [] OTHER -> None

\* _mask_token_like, redaction.py 243-276
_mask_token_like(value) ==
    IF value = "eyJhbGciOi.eyJzdWIiOi.c2lnbmF0"     \* startswith("eyJ"), two dots
      THEN REDACTED_VALUE
    ELSE IF value \in {"bearer abc123", "Bearer [REDACTED]"}  \* "bearer " prefix
      THEN "Bearer " \o REDACTED_VALUE
    ELSE IF detect_pii(value) # None
      THEN "[REDACTED:" \o Upper(detect_pii(value)) \o "]"
    ELSE value

\* _redact_recursive, redaction.py 104-123
RECURSIVE _redact_recursive(_, _)
_redact_recursive(obj, sensitive_keys) ==
    IF DOMAIN obj = {"dict"}
      THEN [dict |-> [key \in DOMAIN obj.dict |->
                        IF _is_sensitive_key(key, sensitive_keys)
                          THEN [str |-> REDACTED_VALUE]
                          ELSE _redact_recursive(obj.dict[key], sensitive_keys)]]
    ELSE IF DOMAIN obj = {"list"}
      THEN [list |-> [i \in DOMAIN obj.list |->
                        _redact_recursive(obj.list[i], sensitive_keys)]]
    ELSE IF DOMAIN obj = {"str"}
      THEN [str |-> _mask_token_like(obj.str)]
    ELSE obj

\* redact_body, redaction.py 77-101
redact_body(body) ==
    IF body = [null |-> TRUE]
      THEN body
      ELSE _redact_recursive(body, SENSITIVE_BODY_KEYS)

\* redact_headers(headers, mode=..., additional_sensitive=...)
RedactHeaders(headers, redact_mode, additional_sensitive) ==
    /\ last' = [op |-> "redact_headers", headers |-> headers, mode |-> redact_mode,
                additional_sensitive |-> additional_sensitive,
                result |-> redact_headers(headers, redact_mode, additional_sensitive)]
    /\ UNCHANGED <<trace_vars, snapshot_vars, mode, replay_vars, aux_vars>>

\* redact_body(body)
RedactBody(body) ==
    /\ last' = [op |-> "redact_body", body |-> body, result |-> redact_body(body)]
    /\ UNCHANGED <<trace_vars, snapshot_vars, mode, replay_vars, aux_vars>>

\* redact_body applied to what redact_body returned
RedactBodyAgain ==
    /\ last.op = "redact_body"
    /\ RedactBody(last.result)

Compressions == {"none", "gzip"}                \* CompressionType

\* --------------------------------------------------------------- config.py

TraceMode == {"off", "record", "replay"}
CapturePolicy == {"never", "on_error", "always"}
ModeArgs == {"record", "RECORD", "replay", "off", "recording", ""}
SampleRates == {-1, 0, 5, 10, 11}       \* sample_rate in tenths: -0.1 .. 1.1
MaxBodyKbs == {-1, 0, 1, 64}
PolicyArgs == {"Always", "never", "sometimes"}
CompressionArgs == {"GZIP", "none", "zip"}

ConfigurationError(field) == [type |-> "ConfigurationError", field |-> field]

\* TraceConfig(...): the dataclass __init__ followed by __post_init__,
\* config.py 96-144
TraceConfig_AnyBodySize(mode_arg, sample_rate, max_body_kb, store_body, compression) ==
    IF Lower(mode_arg) \notin TraceMode
      THEN [outcome |-> "raise", error |-> ConfigurationError("mode")]
    ELSE IF Lower(store_body) \notin CapturePolicy
      THEN [outcome |-> "raise", error |-> ConfigurationError("store_request_body")]
    ELSE IF ~(0 <= sample_rate /\ sample_rate <= 10)
      THEN [outcome |-> "raise", error |-> ConfigurationError("sample_rate")]
    ELSE IF Lower(compression) \notin Compressions
      THEN [outcome |-> "raise", error |-> ConfigurationError("compression")]
    ELSE [outcome |-> "return",
          value |-> [mode |-> Lower(mode_arg), sample_rate |-> sample_rate,
                     max_body_kb |-> max_body_kb,
                     store_request_body |-> Lower(store_body),
                     compression |-> Lower(compression)]]
TraceConfig(mode_arg, sample_rate, max_body_kb, store_body, compression) ==
    IF Lower(mode_arg) \notin TraceMode
      THEN [outcome |-> "raise", error |-> ConfigurationError("mode")]
    ELSE IF Lower(store_body) \notin CapturePolicy
      THEN [outcome |-> "raise", error |-> ConfigurationError("store_request_body")]
    ELSE IF ~(0 <= sample_rate /\ sample_rate <= 10)
      THEN [outcome |-> "raise", error |-> ConfigurationError("sample_rate")]
    ELSE IF max_body_kb < 0
      THEN [outcome |-> "raise", error |-> ConfigurationError("max_body_kb")]
    ELSE IF Lower(compression) \notin Compressions
      THEN [outcome |-> "raise", error |-> ConfigurationError("compression")]
    ELSE [outcome |-> "return",
          value |-> [mode |-> Lower(mode_arg), sample_rate |-> sample_rate,
                     max_body_kb |-> max_body_kb,
                     store_request_body |-> Lower(store_body),
                     compression |-> Lower(compression)]]

\* cfg = TraceConfig(mode=..., sample_rate=..., max_body_kb=..., ...)
ConstructConfig(mode_arg, sample_rate, max_body_kb, store_body, compression) ==
    /\ last' = [op |-> "TraceConfig",
                args |-> [mode |-> mode_arg, sample_rate |-> sample_rate,
                          max_body_kb |-> max_body_kb,
                          store_request_body |-> store_body,
                          compression |-> compression],
                result |-> TraceConfig(mode_arg, sample_rate, max_body_kb,
                                       store_body, compression)]
    /\ UNCHANGED <<trace_vars, snapshot_vars, mode, replay_vars, aux_vars>>

\* ---------------------------------------- body capture while recording

\* body bytes, as the sequence of their 1 KB blocks
RawBodies ==
    { << >>,
      <<"{'password': 'hunter2'}">>,
      <<"{'name': 'alice'}">>,
      <<"{'name': 'alice', ", "'contact': 'a@b.co'}">>,
      <<"{'items': [", "'eyJhbGciOi.eyJzdWIiOi.c2lnbmF0'", "]}">>,
      <<"\\x89PNG">>,
      <<"\\x89PNG", "IDAT">> }
NoBody == [type |-> "NoneType"]                 \* BodySnapshot | None
NoData == [null |-> TRUE]                       \* BodySnapshot.data = None
JSONDecodeError == [type |-> "JSONDecodeError"]

\* json.loads(body.decode("utf-8")): the document, or JSONDecodeError for
\* bytes that are no complete JSON document (a truncated prefix is none)
json_loads(body) ==
    CASE body = <<"{'password': 'hunter2'}">>
           -> [dict |-> ("password" :> [str |-> "hunter2"])]
      [] body = <<"{'name': 'alice'}">>
           -> [dict |-> ("name" :> [str |-> "alice"])]
      [] body = <<"{'name': 'alice', ", "'contact': 'a@b.co'}">>
           -> [dict |-> ("name" :> [str |-> "alice"]) @@
                        ("contact" :> [str |-> "a@b.co"])]
      [] body = <<"{'items': [", "'eyJhbGciOi.eyJzdWIiOi.c2lnbmF0'", "]}">>
           -> [dict |-> ("items" :>
                 [list |-> <<[str |-> "eyJhbGciOi.eyJzdWIiOi.c2lnbmF0"]>>])]
      [] OTHER -> JSONDecodeError

\* utils/hashing.py hash_body: SHA-256 of the bytes it is given
hash_body(data) == [sha256 |-> data]

\* body[:max_bytes], max_bytes = max_body_kb * 1024
Prefix(body, max_body_kb) ==
    SubSeq(body, 1, IF Len(body) < max_body_kb THEN Len(body) ELSE max_body_kb)

\* the part shared by _capture_request_body (fastapi.py 316-350) and
\* _build_response_snapshot (fastapi.py 376-399): truncate, parse, redact,
\* and hash the bytes left after truncation
StoredBodySnapshot(full_body, max_body_kb) ==
    LET size_bytes == Len(full_body)
        truncated == size_bytes > max_body_kb
        body == IF truncated THEN Prefix(full_body, max_body_kb) ELSE full_body
        parsed == json_loads(body)
    IN [captured |-> TRUE,
        encoding |-> IF parsed = JSONDecodeError THEN "bytes" ELSE "json",
        data |-> IF parsed = JSONDecodeError THEN NoData ELSE redact_body(parsed),
        truncated |-> truncated,
        size_bytes |-> size_bytes,
        hash |-> hash_body(body)]

\* TimeTracerMiddleware._capture_request_body
_capture_request_body(full_body, max_body_kb) ==
    IF full_body = << >> THEN NoBody ELSE StoredBodySnapshot(full_body, max_body_kb)

\* TimeTracerMiddleware._build_response_snapshot: the body snapshot
_build_response_snapshot(body, max_body_kb, should_store) ==
    IF should_store /\ body # << >>
      THEN StoredBodySnapshot(body, max_body_kb)
    ELSE IF body # << >>
      THEN [captured |-> FALSE, encoding |-> None, data |-> NoData,
            truncated |-> FALSE, size_bytes |-> Len(body), hash |-> hash_body(body)]
    ELSE NoBody

\* httpx_plugin._make_result: the body snapshot of a dependency event
make_result_body(content) ==
    IF content = << >>
      THEN NoBody
      ELSE LET parsed == json_loads(content)
           IN [captured |-> TRUE,
               encoding |-> IF parsed = JSONDecodeError THEN "bytes" ELSE "json",
               data |-> IF parsed = JSONDecodeError THEN NoData ELSE parsed,
               truncated |-> FALSE,
               size_bytes |-> Len(content),
               hash |-> hash_body(content)]

\* io.py _body_to_dict: the keys written for a BodySnapshot
_body_to_dict(body) ==
    LET keys == {"_captured", "size_bytes", "hash"}
                  \cup (IF Truthy(body.encoding) THEN {"encoding"} ELSE {})
                  \cup (IF body.data # NoData THEN {"data"} ELSE {})
                  \cup (IF body.truncated THEN {"truncated"} ELSE {})
    IN [k \in keys |->
          CASE k = "_captured" -> body.captured
            [] k = "encoding" -> body.encoding
            [] k = "data" -> body.data
            [] k = "truncated" -> body.truncated
            [] k = "size_bytes" -> body.size_bytes
            [] k = "hash" -> body.hash]

CaptureRequestBody(full_body, max_body_kb) ==
    /\ last' = [op |-> "capture_body", source |-> "request", body |-> full_body,
                max_body_kb |-> max_body_kb,
                snapshot |-> _capture_request_body(full_body, max_body_kb)]
    /\ UNCHANGED <<trace_vars, snapshot_vars, mode, replay_vars, aux_vars>>

BuildResponseSnapshot(body, max_body_kb, should_store) ==
    /\ last' = [op |-> "capture_body", source |-> "response", body |-> body,
                max_body_kb |-> max_body_kb,
                snapshot |-> _build_response_snapshot(body, max_body_kb, should_store)]
    /\ UNCHANGED <<trace_vars, snapshot_vars, mode, replay_vars, aux_vars>>

MakeResultBody(content, max_body_kb) ==
    /\ last' = [op |-> "capture_body", source |-> "event", body |-> content,
                max_body_kb |-> max_body_kb,
                snapshot |-> make_result_body(content)]
    /\ UNCHANGED <<trace_vars, snapshot_vars, mode, replay_vars, aux_vars>>

\* policies/capture.py should_store_body
should_store_body(policy, is_error) ==
    CASE Lower(policy) = "always" -> TRUE
      [] Lower(policy) = "never" -> FALSE
      [] Lower(policy) = "on_error" -> is_error
      [] OTHER -> FALSE

\* bodies and statuses of the traced requests below
CapturedBodies == { << >>, <<"{'name': 'alice'}">>, <<"\\x89PNG">> }
ResponseStatuses == {200, 404}

\* _handle_record, the bodies of one traced request: the request body is
\* captured before the app runs (_capture_request does not read
\* store_request_body), the response body in the finally clause with
\* is_error = is_error or response_status >= 400
HandleRecordBodies(store_request_body, store_response_body, request_body, response_body, raised, status) ==
    /\ LET is_error == raised \/ status >= 400 IN
       last' = [op |-> "handle_record_bodies",
                store_request_body |-> store_request_body,
                store_response_body |-> store_response_body,
                is_error |-> is_error,
                request_body |-> _capture_request_body(request_body, 64),
                response_body |->
                  _build_response_snapshot(response_body, 64,
                      should_store_body(store_response_body, is_error))]
    /\ UNCHANGED <<trace_vars, snapshot_vars, mode, replay_vars, aux_vars>>

\* write_cassette reaches _body_to_dict with the snapshot just captured
SerializeBody ==
    /\ last.op = "capture_body"
    /\ last.snapshot # NoBody
    /\ last' = [op |-> "body_to_dict", source |-> last.source, body |-> last.body,
                max_body_kb |-> last.max_body_kb, snapshot |-> last.snapshot,
                dict |-> _body_to_dict(last.snapshot)]
    /\ UNCHANGED <<trace_vars, snapshot_vars, mode, replay_vars, aux_vars>>

\* ------------------------------------------- plugins, the patched methods

\* a dependency call of the application code: the plugin whose patched
\* method it goes through, and what the plugin's _make_signature makes of it
HandlerCalls ==
    { [plugin |-> "http", method |-> "GET", url |-> "https://h/a"],
      [plugin |-> "redis", method |-> "GET", url |-> "user:1"],
      [plugin |-> "db", method |-> "SELECT", url |-> "users"] }

\* the EventType each plugin records and asks for
PluginEventType(plugin_name) ==
    CASE plugin_name = "http" -> "http.client"
      [] plugin_name = "redis" -> "redis"
      [] plugin_name = "db" -> "db.query"

\* _build_event of the plugins: eid 0, the plugin's signature and result
\* (httpx: the response status; redis: 1 for a result; sqlalchemy: rowcount)
plugin_build_event(call) ==
    [eid |-> 0, event_type |-> PluginEventType(call.plugin),
     signature |-> [method |-> call.method, url |-> call.url],
     result |-> [status |-> IF call.plugin = "http" THEN 200 ELSE 1]]

\* the calls a handler makes, read off the events its recording produced
CallsOf(evs) ==
    [i \in DOMAIN evs |->
       CHOOSE c \in HandlerCalls :
         /\ PluginEventType(c.plugin) = evs[i].event_type
         /\ c.method = evs[i].signature.method
         /\ c.url = evs[i].signature.url]

\* a patched method in record mode: the real call, then
\* session.add_event(_build_event(...))
RecordCall(call) == AddEvent(plugin_build_event(call))

\* TraceConfig values of the replaying middleware (fastapi.py 227-232)
HybridConfigs ==
    { [live_plugins |-> << >>, mock_plugins |-> << >>] } \cup
    { [live_plugins |-> <<p>>, mock_plugins |-> << >>] : p \in PluginNames }

\* _handle_replay: ReplaySession(cassette, cassette_path, strict, config)
StartHybridReplay(strict_replay, cfg) ==
    /\ mode = "record"
    /\ finalized' = TRUE
    /\ cassette' = ToCassette(events, request, response, error_info)
    /\ strict' = strict_replay
    /\ cursor' = 0
    /\ consumed_events' = << >>
    /\ returned' = << >>
    /\ mode' = "replay"
    /\ config' = cfg
    /\ hd_calls' = << >>
    /\ last' = [op |-> "ReplaySession"]
    /\ UNCHANGED <<events, event_counter, add_calls, snapshot_vars,
                   context_vars, thread_vars, wrapper_vars, io_vars, held_vars, patch_vars>>

\* ReplaySession.should_mock_plugin
session_should_mock_plugin(cfg, plugin_name) ==
    IF cfg = NoConfig THEN TRUE ELSE should_mock_plugin(cfg, plugin_name)

\* "result = event.result" with event = None
AttributeError ==
    [type |-> "AttributeError",
     message |-> "'NoneType' object has no attribute 'result'"]

\* the real dependency is called; the replay session is not touched
LiveCall(cur, consumed) ==
    [outcome |-> "live", cursor |-> cur, consumed |-> consumed]

\* _build_synthetic_response (httpx) and _extract_result (redis): both
\* begin with "result = event.result"
_build_synthetic_response(r) ==
    IF r.value = NoEvent
      THEN Raise(AttributeError, r.cursor, r.consumed)
      ELSE [outcome |-> "return", response |-> [status |-> r.value.result.status],
            event |-> r.value, cursor |-> r.cursor, consumed |-> r.consumed]

\* _replay_async_request (httpx), _replay_command (redis)
replay_call(cas, is_strict, cur, consumed, call) ==
    LET r == get_next_event(cas, CassettePath, is_strict, cur, consumed,
                            PluginEventType(call.plugin),
                            make_signature_dict(call))
    IN IF r.outcome = "raise" THEN r ELSE _build_synthetic_response(r)

\* the patched method of a plugin while a ReplaySession is current:
\* sqlalchemy's _after_cursor_execute and motor's patched methods act in
\* record mode only, so the query runs against the real database; httpx
\* and redis call the original when the plugin is live, and replay otherwise
patched_call(cfg, cas, is_strict, cur, consumed, call) ==
    IF call.plugin = "db"
      THEN LiveCall(cur, consumed)
    ELSE IF ~session_should_mock_plugin(cfg, call.plugin)
      THEN LiveCall(cur, consumed)
    ELSE replay_call(cas, is_strict, cur, consumed, call)

InitHandler == hd_calls = << >>

\* the replayed handler makes a dependency call
PatchedCall(call) ==
    /\ mode = "replay"
    /\ Len(hd_calls) < MaxCalls
    /\ LET r == patched_call(config, cassette, strict, cursor, consumed_events, call) IN
         /\ cursor' = r.cursor
         /\ consumed_events' = r.consumed
         /\ returned' = IF r.outcome = "return" /\ r.event # NoEvent
                           THEN Append(returned, r.event) ELSE returned
         /\ last' = IF r.outcome = "raise"
                       THEN [op |-> "patched_call", call |-> call,
                             outcome |-> "raise", error |-> r.error]
                    ELSE IF r.outcome = "return"
                       THEN [op |-> "patched_call", call |-> call,
                             outcome |-> "return", response |-> r.response]
                    ELSE [op |-> "patched_call", call |-> call, outcome |-> "live"]
    /\ hd_calls' = Append(hd_calls, call)
    /\ UNCHANGED <<trace_vars, snapshot_vars, mode, cassette, strict, config,
                   context_vars, thread_vars, wrapper_vars, io_vars, held_vars, patch_vars>>

\* ------------------------------------------- plugins, enable and disable

\* the plugins that patch a client library, and the methods each replaces
\* (the libraries are installed: "import httpx" succeeds)
PatchingPlugins == {"httpx", "requests", "aiohttp", "redis", "motor"}
PluginMethods(p) ==
    CASE p = "httpx" -> {"AsyncClient.send", "Client.send"}
      [] p = "requests" -> {"Session.request"}
      [] p = "aiohttp" -> {"ClientSession._request"}
      [] p = "redis" -> {"Redis.execute_command", "Pipeline.execute"}
      [] p = "motor" -> {"find", "find_one", "insert_one"}

\* a method of the library is the library's own function or the plugin's
\* _patched_* function; _original_* is None until enable saves a method
Original == "original"
Patched == "patched"

InitPatch ==
    /\ lib_method = [p \in PatchingPlugins |-> [m \in PluginMethods(p) |-> Original]]
    /\ saved_original = [p \in PatchingPlugins |-> [m \in PluginMethods(p) |-> None]]
    /\ plugin_enabled = [p \in PatchingPlugins |-> FALSE]

\* "if _enabled: return" in enable_*, "if not _enabled: return" in disable_*
AlreadyEnabled_Never(is_enabled) == FALSE
AlreadyEnabled(is_enabled) == is_enabled

\* enable_httpx, enable_requests, enable_aiohttp, enable_redis, enable_motor
Enable(p) ==
    /\ IF AlreadyEnabled(plugin_enabled[p])
         THEN UNCHANGED patch_vars
         ELSE /\ saved_original' = [saved_original EXCEPT ![p] = lib_method[p]]
              /\ lib_method' = [lib_method EXCEPT
                                  ![p] = [m \in PluginMethods(p) |-> Patched]]
              /\ plugin_enabled' = [plugin_enabled EXCEPT ![p] = TRUE]
    /\ last' = [op |-> "enable", plugin |-> p, was_enabled |-> plugin_enabled[p]]
    /\ UNCHANGED <<trace_vars, snapshot_vars, mode, replay_vars, config,
                   context_vars, thread_vars, wrapper_vars, io_vars,
                   handler_vars, held_vars>>

\* disable_*: "if _original_x is not None: Lib.x = _original_x", then
\* "_original_x = None; _enabled = False"
Disable(p) ==
    /\ IF ~plugin_enabled[p]
         THEN UNCHANGED patch_vars
         ELSE /\ lib_method' = [lib_method EXCEPT
                                  ![p] = [m \in PluginMethods(p) |->
                                            IF saved_original[p][m] # None
                                              THEN saved_original[p][m]
                                              ELSE lib_method[p][m]]]
              /\ saved_original' = [saved_original EXCEPT
                                      ![p] = [m \in PluginMethods(p) |-> None]]
              /\ plugin_enabled' = [plugin_enabled EXCEPT ![p] = FALSE]
    /\ last' = [op |-> "disable", plugin |-> p, was_enabled |-> plugin_enabled[p]]
    /\ UNCHANGED <<trace_vars, snapshot_vars, mode, replay_vars, config,
                   context_vars, thread_vars, wrapper_vars, io_vars,
                   handler_vars, held_vars>>

\* -------------------------------------------------------- cassette/io.py

NoFile == [type |-> "NoneType"]                 \* no file at the path
PlainPath == "/cassettes/2026-01-01/GET__checkout__3f2a.json"
GzipPath == PlainPath \o ".gz"
\* versions found in cassette files; Absent: the file has no schema_version
Absent == "absent"
FileVersions == {"0.1", "1.0", "0.9", "2.0", Absent}

\* dict[key] = value
Put(dict, key, value) ==
    [k \in DOMAIN dict \cup {key} |-> IF k = key THEN value ELSE dict[k]]
\* del dict[key]
Remove(dict, key) == [k \in DOMAIN dict \ {key} |-> dict[k]]

_session_meta_to_dict(meta) ==
    [id |-> meta.id, recorded_at |-> meta.recorded_at, service |-> meta.service,
     env |-> meta.env, framework |-> meta.framework,
     timetracer_version |-> meta.timetracer_version,
     python_version |-> meta.python_version, git_sha |-> meta.git_sha]

_request_to_dict(req) == [method |-> req.method, path |-> req.path]

_response_to_dict(res) == [status |-> res.status]

\* "if sig.url:" the key is written only for a truthy url
_signature_to_dict(sig) ==
    IF Truthy(sig.url)
      THEN [method |-> sig.method, url |-> sig.url]
      ELSE [method |-> sig.method]

\* "if result.status is not None:"
_result_to_dict(result) ==
    IF "status" \in DOMAIN result THEN [status |-> result.status] ELSE EmptyDict

_event_to_dict(event) ==
    [eid |-> event.eid, type |-> event.event_type,
     signature |-> _signature_to_dict(event.signature),
     result |-> _result_to_dict(event.result)]

_policies_to_dict(policies) ==
    [redaction |-> [mode |-> policies.redaction_mode,
                    rules |-> policies.redaction_rules],
     capture |-> [max_body_kb |-> policies.max_body_kb,
                  store_request_body |-> policies.store_request_body,
                  store_response_body |-> policies.store_response_body],
     sampling |-> [rate |-> policies.sample_rate,
                   errors_only |-> policies.errors_only]]

_stats_to_dict(stats) ==
    [event_counts |-> stats.event_counts, total_events |-> stats.total_events]

\* io.py 169-179
_cassette_to_dict(cas) ==
    [schema_version |-> cas.schema_version,
     session |-> _session_meta_to_dict(cas.session),
     request |-> _request_to_dict(cas.request),
     response |-> _response_to_dict(cas.response),
     events |-> [i \in DOMAIN cas.events |-> _event_to_dict(cas.events[i])],
     policies |-> _policies_to_dict(cas.policies),
     stats |-> _stats_to_dict(cas.stats)]

_dict_to_session_meta(data) ==
    [id |-> data.id, recorded_at |-> data.recorded_at,
     service |-> data.service, env |-> data.env, framework |-> data.framework,
     timetracer_version |-> data.timetracer_version,
     python_version |-> data.python_version, git_sha |-> Get(data, "git_sha")]

_dict_to_request(data) == [method |-> data.method, path |-> data.path]

_dict_to_response(data) == [status |-> data.status]

_dict_to_signature(data) == [method |-> data.method, url |-> Get(data, "url")]

_dict_to_result(data) ==
    IF "status" \in DOMAIN data THEN [status |-> data.status] ELSE EmptyDict

_dict_to_event(data) ==
    [eid |-> data.eid, event_type |-> data.type,
     signature |-> _dict_to_signature(data.signature),
     result |-> _dict_to_result(data.result)]

_dict_to_policies(data) ==
    [redaction_mode |-> data.redaction.mode,
     redaction_rules |-> data.redaction.rules,
     max_body_kb |-> data.capture.max_body_kb,
     store_request_body |-> data.capture.store_request_body,
     store_response_body |-> data.capture.store_response_body,
     sample_rate |-> data.sampling.rate,
     errors_only |-> data.sampling.errors_only]

_dict_to_stats(data) ==
    [event_counts |-> data.event_counts, total_events |-> data.total_events]

\* io.py 323-333; Cassette.error_info is not passed and keeps its default
_dict_to_cassette(data) ==
    [schema_version |-> data.schema_version,
     session |-> _dict_to_session_meta(data.session),
     request |-> _dict_to_request(data.request),
     response |-> _dict_to_response(data.response),
     events |-> [i \in DOMAIN data.events |-> _dict_to_event(data.events[i])],
     policies |-> _dict_to_policies(data.policies),
     stats |-> _dict_to_stats(data.stats),
     error_info |-> NoErrorInfo]

\* io.py 150-166
_migrate_cassette_Keep(data, from_version) == data
_migrate_cassette(data, from_version) ==
    IF from_version = "0.1"
      THEN Put(data, "schema_version", SCHEMA_VERSION)
      ELSE data

\* exceptions.py 28-38
CassetteSchemaError_Swapped(path, expected_version, actual_version) ==
    [type |-> "CassetteSchemaError", path |-> path,
     expected_version |-> actual_version, actual_version |-> expected_version]
CassetteSchemaError(path, expected_version, actual_version) ==
    [type |-> "CassetteSchemaError", path |-> path,
     expected_version |-> expected_version, actual_version |-> actual_version]

\* write_cassette: the file it leaves on disk (the session is finalized
\* by the caller action); the JSON document is kept as the dict that
\* json.dumps was given, gzip only changes how the bytes are stored
write_cassette(cas, compression) ==
    [path |-> IF compression = "gzip" THEN GzipPath ELSE PlainPath,
     stored |-> IF compression = "gzip" THEN "gzip" ELSE "text",
     data |-> _cassette_to_dict(cas),
     origin |-> "write_cassette"]

\* read_cassette, io.py 104-147
read_cassette(f) ==
    IF f = NoFile
      THEN [outcome |-> "raise", error |-> [type |-> "CassetteNotFoundError"]]
      ELSE LET is_gzip == f.path = GzipPath        \* the ".gz" suffix
           IN IF is_gzip # (f.stored = "gzip")
                THEN [outcome |-> "raise", error |-> [type |-> "OSError"]]
                ELSE LET data == f.data
                         schema_version == Get(data, "schema_version")
                     IN IF ~InList(schema_version, SUPPORTED_SCHEMA_VERSIONS)
                          THEN [outcome |-> "raise",
                                error |-> CassetteSchemaError(f.path, SCHEMA_VERSION,
                                                              schema_version)]
                          ELSE [outcome |-> "return",
                                value |-> _dict_to_cassette(
                                    IF schema_version # SCHEMA_VERSION
                                      THEN _migrate_cassette(data, schema_version)
                                      ELSE data)]

InitFile == file = NoFile

\* io.py 66-68: "if not session._finalized: session.finalize()"
EnsureFinalized_Skip(is_finalized) == is_finalized
EnsureFinalized(is_finalized) == IF ~is_finalized THEN TRUE ELSE is_finalized

\* write_cassette(session, config) at the end of a recorded request
WriteCassette(compression) ==
    /\ mode = "record"
    /\ file = NoFile
    /\ finalized' = EnsureFinalized(finalized)
    /\ file' = write_cassette(ToCassette(events, request, response, error_info),
                              compression)
    /\ last' = [op |-> "write_cassette", compression |-> compression,
                finalized |-> finalized]
    /\ UNCHANGED <<events, event_counter, add_calls, snapshot_vars, mode,
                   replay_vars, config, context_vars, thread_vars, wrapper_vars, ext_vars>>

\* a cassette file that another release of the tool left at the path: the
\* same document with another schema_version, or with none
ForeignCassette(version) ==
    /\ file # NoFile
    /\ file.origin = "write_cassette"
    /\ file' = [file EXCEPT
                  !.data = IF version = Absent
                             THEN Remove(file.data, "schema_version")
                             ELSE Put(file.data, "schema_version", version),
                  !.origin = "foreign"]
    /\ last' = [op |-> "foreign_cassette", version |-> version]
    /\ UNCHANGED <<trace_vars, snapshot_vars, mode, replay_vars, config,
                   context_vars, thread_vars, wrapper_vars, ext_vars>>

\* read_cassette(path)
ReadCassette ==
    /\ last' = [op |-> "read_cassette", result |-> read_cassette(file)]
    /\ UNCHANGED <<trace_vars, snapshot_vars, mode, replay_vars, aux_vars>>

\* --------------------------- integrations/fastapi.py, _handle_record

\* what "await self.app(scope, receive_wrapper, send_wrapper)" can do: send
\* a response and return, or raise, before or after the response started
\* (response_status stays 0 until "http.response.start" is sent)
AppOutcomes ==
    { [kind |-> "return", status |-> st] : st \in {200, 404} } \cup
    { [kind |-> "raise", exc |-> e, status |-> st] :
        e \in OutboundExceptions, st \in {0, 200} }

\* fastapi.py 173-179: "except Exception as e: is_error = True; ...; raise"
AppRaisedException(outcome) == outcome.kind = "raise" /\ outcome.exc.is_exception

\* fastapi.py 185: "is_error = is_error or response_status >= 400"
IsErrorRequest(outcome) == AppRaisedException(outcome) \/ outcome.status >= 400

\* fastapi.py 201: "if not self.config.errors_only or is_error:"
ShouldWrite_Always(errors_only, is_error) == TRUE
ShouldWrite(errors_only, is_error) == ~errors_only \/ is_error

\* _handle_record after the app returned or raised: mark_error in the
\* except clause; in the finally clause set_response, finalize and, if
\* the errors_only setting allows it, write_cassette
HandleRecordFinish(errors_only, outcome) ==
    /\ mode = "record"
    /\ file = NoFile
    /\ ~finalized
    /\ error_info' = IF AppRaisedException(outcome)
                       THEN [is_error |-> TRUE,
                             info |-> [type |-> outcome.exc.type,
                                       message |-> outcome.exc.message]]
                       ELSE error_info
    /\ response' = [status |-> outcome.status]
    /\ finalized' = TRUE
    /\ file' = IF ShouldWrite(errors_only, IsErrorRequest(outcome))
                 THEN write_cassette(ToCassette(events, request, response', error_info'),
                                     "none")
                 ELSE file
    /\ last' = [op |-> "handle_record", errors_only |-> errors_only,
                outcome |-> outcome]
    /\ UNCHANGED <<events, event_counter, add_calls, request, mode, replay_vars,
                   config, context_vars, thread_vars, wrapper_vars, ext_vars>>

\* ------------------------------------------------------------ specification

Init ==
    /\ events = << >>
    /\ event_counter = 0
    /\ finalized = FALSE
    /\ add_calls = 0
    /\ request = NoRequest
    /\ response = NoResponse
    /\ error_info = [is_error |-> FALSE, info |-> NoErrorInfo]
    /\ mode = "record"
    /\ cassette = ToCassette(<< >>, NoRequest, NoResponse, [is_error |-> FALSE, info |-> NoErrorInfo])
    /\ strict = TRUE
    /\ cursor = 0
    /\ consumed_events = << >>
    /\ returned = << >>
    /\ last = [op |-> "init"]
    /\ config = NoConfig
    /\ InitContext
    /\ InitThreads
    /\ InitWrapper
    /\ InitFile
    /\ InitHandler
    /\ InitHeld
    /\ InitPatch

Next ==
    \/ \E event \in DependencyEvent : AddEvent(event)
    \/ Finalize
    \/ \E snapshot \in RequestSnapshots : SetRequest(snapshot)
    \/ \E s \in BOOLEAN : StartReplay(s)
    \/ \E t \in CalledEventTypes, a \in ActualSignatures : GetNextEvent(t, a)
    \/ \E t \in CalledEventTypes \cup {None} : PeekNextEvent(t)
    \/ GetUnconsumedEvents

Spec == Init /\ [][Next]_vars

\* hybrid replay: a ReplaySession constructed with any config (or none)
InitHybrid ==
    /\ events = << >>
    /\ event_counter = 0
    /\ finalized = FALSE
    /\ add_calls = 0
    /\ request = NoRequest
    /\ response = NoResponse
    /\ error_info = [is_error |-> FALSE, info |-> NoErrorInfo]
    /\ mode = "replay"
    /\ cassette = ToCassette(<< >>, NoRequest, NoResponse, [is_error |-> FALSE, info |-> NoErrorInfo])
    /\ strict \in BOOLEAN
    /\ cursor = 0
    /\ consumed_events = << >>
    /\ returned = << >>
    /\ last = [op |-> "ReplaySession"]
    /\ config \in TraceConfigs \cup {NoConfig}
    /\ InitContext
    /\ InitThreads
    /\ InitWrapper
    /\ InitFile
    /\ InitHandler
    /\ InitHeld
    /\ InitPatch

NextHybrid == \E p \in PluginNames : ShouldMockPlugin(p)

SpecHybrid == InitHybrid /\ [][NextHybrid]_vars

\* the record-mode life of one TraceSession, as an adapter drives it
NextLifecycle ==
    \/ \E event \in DependencyEvent : AddEvent(event)
    \/ \E snapshot \in RequestSnapshots : SetRequest(snapshot)
    \/ \E snapshot \in ResponseSnapshots : SetResponse(snapshot)
    \/ \E t \in ErrorTypes, m \in ErrorMessages, tb \in Tracebacks : MarkError(t, m, tb)
    \/ Finalize

SpecLifecycle == Init /\ [][NextLifecycle]_vars

\* concurrent inbound requests in record mode, each in its own context
NextContext ==
    \/ \E r \in Requests : HandleRecordSetSession(r)
    \/ \E r \in Requests : HandleRecordCallApp(r)
    \/ \E r \in Requests : HandleRecordResetSession(r)
    \/ \E c \in Contexts : GetCurrentSession(c)

SpecContext == Init /\ [][NextContext]_vars

\* several callers inside add_event of one TraceSession
NextConcurrent ==
    \/ \E t \in Threads : AddEventInvoke(t)
    \/ \E t \in Threads : AddEventCheck(t)
    \/ \E t \in Threads : AddEventLoad(t)
    \/ \E t \in Threads : AddEventStore(t)
    \/ \E t \in Threads : AddEventAssign(t)
    \/ \E t \in Threads : AddEventAppend(t)
    \/ Finalize

SpecConcurrent == Init /\ [][NextConcurrent]_vars

\* a plugin recording outbound calls while the adapter may finalize
NextPlugin ==
    \/ RecordRequestSend
    \/ \E o \in OutboundOutcomes : RecordRequestFinish(o)
    \/ Finalize

SpecPlugin == Init /\ [][NextPlugin]_vars
\* a recorded request, its cassette written to disk and read back
NextCassette ==
    \/ file = NoFile /\ NextLifecycle
    \/ \E c \in Compressions : WriteCassette(c)
    \/ \E v \in FileVersions : ForeignCassette(v)
    \/ ReadCassette

SpecCassette == Init /\ [][NextCassette]_vars

\* the redaction policies applied to header maps and JSON bodies
NextRedaction ==
    \/ \E h \in HeaderMaps, md \in RedactModes, a \in AdditionalSensitive :
         RedactHeaders(h, md, a)
    \/ \E body \in JsonValues(MaxDepth) : RedactBody(body)
    \/ RedactBodyAgain

SpecRedaction == Init /\ [][NextRedaction]_vars

\* configurations being constructed
NextConfig ==
    \E md \in ModeArgs, r \in SampleRates, kb \in MaxBodyKbs,
       p \in PolicyArgs, c \in CompressionArgs :
        ConstructConfig(md, r, kb, p, c)

SpecConfig == Init /\ [][NextConfig]_vars

\* a TraceSession whose to_cassette() is called at any time of its life
NextToCassette ==
    \/ \E event \in DependencyEvent : AddEvent(event)
    \/ \E snapshot \in ResponseSnapshots : SetResponse(snapshot)
    \/ Finalize
    \/ ToCassetteCall

SpecToCassette == Init /\ [][NextToCassette]_vars

\* record and replay handlers, one after another and nested, in one context
NextMiddleware ==
    \/ \E r \in Requests, k \in HandlerKinds : HandlerSetSession(r, k)
    \/ \E r \in Requests, raised \in BOOLEAN : HandlerResetSession(r, raised)
    \/ GetCurrentSession(CallerContext)

SpecMiddleware == Init /\ [][NextMiddleware]_vars

\* a TraceSession that is written at any time of its life, and used after
NextWrite ==
    \/ \E event \in DependencyEvent : AddEvent(event)
    \/ Finalize
    \/ \E c \in Compressions : WriteCassette(c)

SpecWrite == Init /\ [][NextWrite]_vars

\* one traced request in record mode, to the end of _handle_record
NextRecord ==
    \/ \E event \in DependencyEvent : AddEvent(event)
    \/ \E snapshot \in RequestSnapshots : SetRequest(snapshot)
    \/ \E eo \in BOOLEAN, o \in AppOutcomes : HandleRecordFinish(eo, o)

SpecRecord == Init /\ [][NextRecord]_vars

\* any sequence of enable and disable calls
NextPatch ==
    \/ \E p \in PatchingPlugins : Enable(p)
    \/ \E p \in PatchingPlugins : Disable(p)

SpecPatch == Init /\ [][NextPatch]_vars

\* a handler is recorded through the plugins and replayed through them
NextHandler ==
    \/ \E c \in HandlerCalls : RecordCall(c)
    \/ \E s \in BOOLEAN, cfg \in HybridConfigs : StartHybridReplay(s, cfg)
    \/ \E c \in HandlerCalls : PatchedCall(c)

SpecHandler == Init /\ [][NextHandler]_vars

\* bodies captured during a recorded request and written to the cassette
CaptureKbs == {kb \in MaxBodyKbs : kb >= 0}     \* a valid config's max_body_kb
NextCapture ==
    \/ \E b \in RawBodies, kb \in CaptureKbs : CaptureRequestBody(b, kb)
    \/ \E b \in RawBodies, kb \in CaptureKbs, s \in BOOLEAN :
         BuildResponseSnapshot(b, kb, s)
    \/ \E b \in RawBodies, kb \in CaptureKbs : MakeResultBody(b, kb)
    \/ SerializeBody
    \/ \E pq, ps \in CapturePolicy, bq, bs \in CapturedBodies, raised \in BOOLEAN, st \in ResponseStatuses :
         HandleRecordBodies(pq, ps, bq, bs, raised, st)

SpecCapture == Init /\ [][NextCapture]_vars

\* ------------------------------------------------------------------ claims

Recorded == cassette.events
AtCursor == Recorded[cursor + 1]            \* only where cursor < Len(Recorded)
IsGetNextEvent(call) == call.op = "get_next_event"
Mentions(message, phrase) == \E i \in DOMAIN message : message[i] = phrase

\* fields of the actual signature whose value is not the recorded one
Differing(recorded_sig, actual_signature) ==
    { f \in DOMAIN actual_signature \cap SignatureKeys :
        actual_signature[f] # recorded_sig[f] }

\* C1: while the session is not finalized, after N successful add_event calls
\* the events list has length N and the i-th event carries eid i (1-based),
\* whatever eid the caller had put on it.
C1_SequentialEid ==
    ~finalized =>
        /\ Len(events) = add_calls
        /\ \A i \in 1..Len(events) : events[i].eid = i

C1_Witness == ~finalized /\ add_calls >= 2 /\ Len(events) >= 2

\* C2: once the session is finalized, every add_event call raises and leaves
\* the events list and the event counter as they were.
C2_FinalizeLock ==
    [][ (finalized /\ last'.op = "add_event")
          => /\ last'.outcome = "RuntimeError"
             /\ events' = events
             /\ event_counter' = event_counter ]_vars

C2_Witness ==
    /\ finalized
    /\ last.op = "add_event"
    /\ last.outcome = "RuntimeError"
    /\ Len(events) >= 1

\* C3: no get_next_event or peek_next_event call, whatever it returns or
\* raises, in strict or lenient mode, decreases the cursor.
C3_CursorMonotonic ==
    [][ last'.op \in {"get_next_event", "peek_next_event"}
          => cursor' >= cursor ]_vars

C3_Witness ==
    /\ cursor >= 1
    /\ IsGetNextEvent(last)
    /\ last.outcome = "raise"

\* C4: every index of a recorded event occurs at most once in the consumed
\* list, and nothing else occurs in it.
C4_AtMostOnce ==
    /\ \A i, j \in DOMAIN consumed_events :
           i # j => consumed_events[i] # consumed_events[j]
    /\ \A i \in DOMAIN consumed_events :
           consumed_events[i] \in 0..(Len(Recorded) - 1)

C4_Witness == mode = "replay" /\ Len(consumed_events) >= 2

\* C5: in strict mode a get_next_event call whose expected type is not the
\* type of the event at the cursor raises a mismatch error that shows the
\* recorded and the requested type; cursor and consumed list stay unchanged.
C5_StrictTypeMismatch ==
    [][ ( /\ mode = "replay" /\ strict
          /\ IsGetNextEvent(last')
          /\ cursor < Len(Recorded)
          /\ AtCursor.event_type # last'.event_type )
          => /\ last'.outcome = "raise"
             /\ last'.error.type = "ReplayMismatchError"
             /\ last'.error.expected = [type |-> AtCursor.event_type]
             /\ last'.error.actual = [type |-> last'.event_type]
             /\ cursor' = cursor
             /\ consumed_events' = consumed_events ]_vars

C5_Witness ==
    /\ mode = "replay" /\ strict
    /\ IsGetNextEvent(last)
    /\ last.outcome = "raise"
    /\ cursor < Len(Recorded)
    /\ AtCursor.event_type # last.event_type
    /\ DOMAIN last.error.expected = {"type"}

\* C6: in strict mode a get_next_event call made with the cursor at or past
\* the end raises a mismatch error that mentions "no more events" and carries
\* the attempted signature; the cursor stays at len(events).
C6_StrictExhausted ==
    [][ ( /\ mode = "replay" /\ strict
          /\ IsGetNextEvent(last')
          /\ cursor >= Len(Recorded) )
          => /\ last'.outcome = "raise"
             /\ last'.error.type = "ReplayMismatchError"
             /\ Mentions(last'.error.message, "no more events")
             /\ last'.error.actual = last'.actual_signature
             /\ cursor' = cursor
             /\ cursor' = Len(Recorded) ]_vars

C6_Witness ==
    /\ mode = "replay" /\ strict
    /\ IsGetNextEvent(last)
    /\ last.outcome = "raise"
    /\ cursor = Len(Recorded)
    /\ Len(Recorded) >= 1
    /\ Mentions(last.error.message, "no more events")
    /\ DOMAIN last.actual_signature = SignatureKeys

\* C7: in strict mode, with the expected type, a get_next_event call whose
\* signature differs from the recorded one in method and/or url raises a
\* mismatch error whose expected and actual maps have an entry for exactly
\* the differing fields (recorded value, actual value); cursor and consumed
\* list stay unchanged.
C7_StrictSignatureMismatch ==
    [][ ( /\ mode = "replay" /\ strict
          /\ IsGetNextEvent(last')
          /\ cursor < Len(Recorded)
          /\ AtCursor.event_type = last'.event_type
          /\ Differing(AtCursor.signature, last'.actual_signature) # {} )
          => /\ last'.outcome = "raise"
             /\ last'.error.type = "ReplayMismatchError"
             /\ DOMAIN last'.error.expected =
                    Differing(AtCursor.signature, last'.actual_signature)
             /\ DOMAIN last'.error.actual =
                    Differing(AtCursor.signature, last'.actual_signature)
             /\ \A f \in Differing(AtCursor.signature, last'.actual_signature) :
                    /\ last'.error.expected[f] = AtCursor.signature[f]
                    /\ last'.error.actual[f] = last'.actual_signature[f]
             /\ cursor' = cursor
             /\ consumed_events' = consumed_events ]_vars

C7_Witness ==
    /\ mode = "replay" /\ strict
    /\ IsGetNextEvent(last)
    /\ last.outcome = "raise"
    /\ cursor < Len(Recorded)
    /\ AtCursor.event_type = last.event_type
    /\ DOMAIN last.error.expected = {"method", "url"}
    /\ DOMAIN last.error.actual = {"method", "url"}

\* C8: in lenient mode a get_next_event call made past the last event, or
\* with an expected type that is not the type of the event at the cursor,
\* returns None without raising; cursor and consumed list stay unchanged.
C8_LenientNoMatch ==
    [][ ( /\ mode = "replay" /\ ~strict
          /\ IsGetNextEvent(last')
          /\ \/ cursor >= Len(Recorded)
             \/ AtCursor.event_type # last'.event_type )
          => /\ last'.outcome = "return"
             /\ last'.value = NoEvent
             /\ cursor' = cursor
             /\ consumed_events' = consumed_events ]_vars

C8_Witness ==
    /\ mode = "replay" /\ ~strict
    /\ IsGetNextEvent(last)
    /\ last.outcome = "return"
    /\ last.value = NoEvent
    /\ cursor >= 1
    /\ cursor < Len(Recorded)
    /\ AtCursor.event_type # last.event_type

\* C9: in lenient mode, with the expected type, a get_next_event call whose
\* signature differs from the recorded one raises nothing, returns the
\* recorded event and advances the cursor by exactly one.
C9_LenientSignatureMismatch ==
    [][ ( /\ mode = "replay" /\ ~strict
          /\ IsGetNextEvent(last')
          /\ cursor < Len(Recorded)
          /\ AtCursor.event_type = last'.event_type
          /\ Differing(AtCursor.signature, last'.actual_signature) # {} )
          => /\ last'.outcome = "return"
             /\ last'.value = AtCursor
             /\ cursor' = cursor + 1 ]_vars

C9_Witness ==
    /\ mode = "replay" /\ ~strict
    /\ IsGetNextEvent(last)
    /\ last.outcome = "return"
    /\ cursor = 1
    /\ last.value = Recorded[1]
    /\ "url" \in Differing(Recorded[1].signature, last.actual_signature)

\* C10 as stated: the value a successful get_next_event call returns is the
\* EventResult of the event that was at the cursor before the call.
C10_ReturnsEventResult ==
    [][ ( /\ mode = "replay"
          /\ IsGetNextEvent(last')
          /\ last'.outcome = "return"
          /\ last'.value # NoEvent )
          => last'.value = AtCursor.result ]_vars

\* C10 amended: the value a successful get_next_event call returns is the
\* DependencyEvent that was at the cursor before the call; the recorded
\* EventResult is its result field.
C10_ReturnsRecordedEvent ==
    [][ ( /\ mode = "replay"
          /\ IsGetNextEvent(last')
          /\ last'.outcome = "return"
          /\ last'.value # NoEvent )
          => /\ cursor < Len(Recorded)
             /\ last'.value = AtCursor
             /\ last'.value.result = AtCursor.result ]_vars

C10_Witness ==
    /\ mode = "replay"
    /\ IsGetNextEvent(last)
    /\ last.outcome = "return"
    /\ last.value # NoEvent
    /\ cursor = 2
    /\ last.value = Recorded[2]
    /\ Recorded[1].result # Recorded[2].result

\* C11 as stated: in strict mode, with the expected type, get_next_event
\* raises a mismatch error exactly when signatures_match reports a mismatch
\* between the recorded signature and the actual one.
C11_RaisesIffSignaturesMismatch ==
    [][ ( /\ mode = "replay" /\ strict
          /\ IsGetNextEvent(last')
          /\ cursor < Len(Recorded)
          /\ AtCursor.event_type = last'.event_type )
          => ( (last'.outcome = "raise")
                 <=> ~signatures_match(AtCursor.signature,
                                       last'.actual_signature).matches ) ]_vars

\* C12: get_unconsumed_events returns the recorded events from the cursor to
\* the end in recorded order: the events get_next_event has returned,
\* followed by the result, are the whole recording; none of the result has
\* been returned; the result is empty iff every event was consumed.
C12_UnconsumedSuffix ==
    (mode = "replay" /\ last.op = "get_unconsumed_events")
      => /\ returned \o last.value = Recorded
         /\ Len(last.value) = Len(Recorded) - cursor
         /\ \A i \in DOMAIN last.value, j \in DOMAIN returned :
                last.value[i] # returned[j]
         /\ (last.value = << >>) <=> (Len(returned) = Len(Recorded))

C12_Witness ==
    /\ mode = "replay"
    /\ last.op = "get_unconsumed_events"
    /\ Len(returned) = 1
    /\ Len(last.value) = 1
    /\ last.value[1] = Recorded[2]

C14_ShouldMockPlugin ==
    (last.op = "should_mock_plugin" /\ config # NoConfig)
      => LET p == last.plugin_name
             live == { config.live_plugins[i] : i \in DOMAIN config.live_plugins }
             mock == { config.mock_plugins[i] : i \in DOMAIN config.mock_plugins }
         IN /\ (p \in live) => (last.value = FALSE)
            /\ (p \notin live /\ mock # {}) => (last.value = (p \in mock))
            /\ (p \notin live /\ mock = {}) => (last.value = TRUE)

C14_Witness ==
    /\ last.op = "should_mock_plugin"
    /\ config # NoConfig
    /\ last.plugin_name = "db"
    /\ InList("db", config.live_plugins)
    /\ InList("db", config.mock_plugins)
    /\ last.value = FALSE

\* C15: every mismatch error get_next_event raises in strict mode carries the
\* session's cassette path, the endpoint "<method> <path>" of the recorded
\* request, the cursor value at the time of the call as event_index, the
\* expected and actual field maps and a remediation hint.
C15_MismatchErrorFields ==
    [][ ( /\ mode = "replay" /\ strict
          /\ IsGetNextEvent(last')
          /\ last'.outcome = "raise" )
          => LET e == last'.error IN
             /\ e.type = "ReplayMismatchError"
             /\ e.cassette_path = CassettePath
             /\ e.endpoint = cassette.request.method \o " " \o cassette.request.path
             /\ e.event_index = cursor
             /\ e.hint # None
             /\ IF cursor >= Len(Recorded)
                  THEN e.expected = EmptyDict /\ e.actual = last'.actual_signature
                  ELSE /\ DOMAIN e.expected # {}
                       /\ DOMAIN e.actual = DOMAIN e.expected
                       /\ \A f \in DOMAIN e.expected : e.expected[f] # e.actual[f] ]_vars

C15_Witness ==
    /\ mode = "replay" /\ strict
    /\ IsGetNextEvent(last)
    /\ last.outcome = "raise"
    /\ last.error.cassette_path = CassettePath
    /\ last.error.endpoint = "GET /checkout"
    /\ last.error.event_index = 1
    /\ cursor < Len(Recorded)
    /\ DOMAIN last.error.expected = {"type"}

\* C16: peek_next_event changes neither the cursor nor the consumed list; it
\* returns the event at the cursor if there is one and it has the type of
\* the filter (or no filter is given), else None.
C16_PeekReadOnly ==
    [][ (mode = "replay" /\ last'.op = "peek_next_event")
          => /\ cursor' = cursor
             /\ consumed_events' = consumed_events
             /\ returned' = returned
             /\ IF /\ cursor < Len(Recorded)
                   /\ (last'.event_type = None
                         \/ AtCursor.event_type = last'.event_type)
                  THEN last'.value = AtCursor
                  ELSE last'.value = NoEvent ]_vars

C16_Witness ==
    /\ mode = "replay"
    /\ last.op = "peek_next_event"
    /\ cursor = 1
    /\ cursor < Len(Recorded)
    /\ last.event_type # None
    /\ AtCursor.event_type # last.event_type
    /\ last.value = NoEvent

\* C17: a finalize call on a session that is already finalized raises
\* nothing and leaves the finalized flag, the events, the request, the
\* response and the error info as they were.
C17_FinalizeIdempotent ==
    [][ (finalized /\ last'.op = "finalize")
          => /\ last'.outcome = "ok"
             /\ finalized' = finalized
             /\ events' = events
             /\ event_counter' = event_counter
             /\ request' = request
             /\ response' = response
             /\ error_info' = error_info ]_vars

C17_Witness ==
    /\ last.op = "finalize"
    /\ last.already
    /\ last.outcome = "ok"
    /\ finalized
    /\ Len(events) >= 1
    /\ request # NoRequest
    /\ response # NoResponse
    /\ error_info.is_error

\* C18: with several requests in flight, each in its own execution
\* context, get_current_session called in a request's context between that
\* request's set_session and reset_session returns that request's session,
\* and in no context does it ever return another request's session.
C18_ContextIsolation ==
    [][ last'.op = "get_current_session"
          => /\ (last'.context \in Requests /\
                 req_pc[last'.context] \in {"capturing", "in_app"})
                  => last'.result = TraceSession(last'.context)
             /\ \A other \in Requests \ {last'.context} :
                  last'.result # TraceSession(other) ]_vars

C18_Witness ==
    /\ last.op = "get_current_session"
    /\ last.context \in Requests
    /\ last.result = TraceSession(last.context)
    /\ \E other \in Requests \ {last.context} :
         /\ req_pc[other] \in {"capturing", "in_app"}
         /\ current_session[other] = TraceSession(other)

\* no caller is inside add_event
Quiescent == \A t \in Threads : th_pc[t] \in {"idle", "done", "raised"}
DistinctEids ==
    \A i, j \in DOMAIN events : i # j => events[i].eid # events[j].eid
ContiguousEids == {events[i].eid : i \in DOMAIN events} = 1 .. Len(events)
InvocationOrder ==
    \A i, j \in DOMAIN invoked :
        (i < j /\ th_pc[invoked[i]] = "done" /\ th_pc[invoked[j]] = "done")
            => /\ th_event[invoked[i]].eid < th_event[invoked[j]].eid
               /\ th_pos[invoked[i]] < th_pos[invoked[j]]

\* C19: when several callers run add_event of one session concurrently,
\* once they have all returned every event has a distinct eid, the eids
\* are 1..n, and of two callers the one that invoked add_event first has
\* the lower eid and the earlier list position.
C19_ConcurrentAddEvent ==
    Quiescent => DistinctEids /\ ContiguousEids /\ InvocationOrder

\* C20: in record mode, when the real outbound call raises, the plugin
\* wrapper appends exactly one event whose result carries the error
\* message and the error type, and re-raises the original exception.
C20_ErrorEventAndReraise ==
    [][ (last'.op = "record_request" /\ last'.at = "finish" /\
         last'.outbound.kind = "raise")
          => /\ Len(events') = Len(events) + 1
             /\ events'[Len(events')].result.error = last'.outbound.exc.message
             /\ events'[Len(events')].result.error_type = last'.outbound.exc.type
             /\ last'.outcome = last'.outbound ]_vars

\* C30: in every state of a ReplaySession 0 <= cursor <= len(events) and
\* the consumed list is [0, 1, ..., cursor-1]; a get_next_event call that
\* returns an event adds one to the cursor and appends the pre-call
\* cursor, a call that raises or returns None leaves both unchanged.
C30_CursorAndConsumed ==
    /\ [](mode = "replay"
            => /\ 0 <= cursor /\ cursor <= Len(Recorded)
               /\ consumed_events = [i \in 1 .. cursor |-> i - 1])
    /\ [][ (mode = "replay" /\ IsGetNextEvent(last'))
             => IF last'.outcome = "return" /\ last'.value # NoEvent
                  THEN /\ cursor' = cursor + 1
                       /\ consumed_events' = Append(consumed_events, cursor)
                  ELSE /\ cursor' = cursor
                       /\ consumed_events' = consumed_events ]_vars

C30_Witness ==
    /\ mode = "replay"
    /\ IsGetNextEvent(last)
    /\ last.outcome = "raise"
    /\ cursor >= 1
    /\ cursor < Len(Recorded)
    /\ consumed_events = <<0>>

\* C29: in the Cassette that to_cassette() builds, stats.total_events is
\* the number of events and stats.event_counts maps exactly the event
\* types that occur to the number of events of that type.
C29_StatsCountEvents ==
    LET c == ToCassette(events, request, response, error_info)
        counts == c.stats.event_counts
    IN /\ c.stats.total_events = Len(c.events)
       /\ DOMAIN counts = {c.events[i].event_type : i \in DOMAIN c.events}
       /\ \A t \in DOMAIN counts :
            /\ counts[t] >= 1
            /\ counts[t] = Cardinality({i \in DOMAIN c.events :
                                          c.events[i].event_type = t})

C29_Witness ==
    /\ finalized
    /\ Len(events) >= 2
    /\ events[1].event_type = events[2].event_type
    /\ ToCassette(events, request, response, error_info).stats.event_counts
         [events[1].event_type] >= 2

\* C21: for any TraceSession and both compression settings,
\* read_cassette(write_cassette(session, cfg)) is a Cassette equal field by
\* field to session.to_cassette().
C21_RoundTrip ==
    [][ (last'.op = "read_cassette" /\ file # NoFile /\
         file.origin = "write_cassette")
          => /\ last'.result.outcome = "return"
             /\ last'.result.value =
                  ToCassette(events, request, response, error_info) ]_vars

\* C22: read_cassette raises a schema error carrying the path, the
\* expected version and the actual version for every file whose
\* schema_version is absent or unsupported, and returns no Cassette.
C22_SchemaError ==
    [][ (last'.op = "read_cassette" /\ file # NoFile /\
         ~InList(Get(file.data, "schema_version"), SUPPORTED_SCHEMA_VERSIONS))
          => /\ last'.result.outcome = "raise"
             /\ last'.result.error.type = "CassetteSchemaError"
             /\ last'.result.error.path = file.path
             /\ last'.result.error.expected_version = SCHEMA_VERSION
             /\ last'.result.error.actual_version =
                  Get(file.data, "schema_version") ]_vars

C22_Witness ==
    /\ last.op = "read_cassette"
    /\ file # NoFile
    /\ "schema_version" \notin DOMAIN file.data
    /\ last.result.outcome = "raise"
    /\ last.result.error.actual_version = None

\* C23: read_cassette of a file at a supported version returns a Cassette
\* at the current version with every other field as stored in the file.
C23_MigratesForward ==
    [][ (last'.op = "read_cassette" /\ file # NoFile /\
         InList(Get(file.data, "schema_version"), SUPPORTED_SCHEMA_VERSIONS))
          => /\ last'.result.outcome = "return"
             /\ LET c == last'.result.value
                    d == file.data
                IN /\ c.schema_version = SCHEMA_VERSION
                   /\ c.session.id = d.session.id
                   /\ c.session.recorded_at = d.session.recorded_at
                   /\ c.request.method = d.request.method
                   /\ c.request.path = d.request.path
                   /\ c.response.status = d.response.status
                   /\ Len(c.events) = Len(d.events)
                   /\ \A i \in DOMAIN d.events :
                        /\ c.events[i].eid = d.events[i].eid
                        /\ c.events[i].event_type = d.events[i].type
                        /\ c.events[i].signature.method = d.events[i].signature.method
                        /\ c.events[i].signature.url = Get(d.events[i].signature, "url")
                        /\ c.events[i].result.status = d.events[i].result.status
                   /\ c.policies.max_body_kb = d.policies.capture.max_body_kb
                   /\ c.stats.total_events = d.stats.total_events
                   /\ c.stats.event_counts = d.stats.event_counts ]_vars

C23_Witness ==
    /\ last.op = "read_cassette"
    /\ file # NoFile
    /\ Get(file.data, "schema_version") = "0.1"
    /\ last.result.outcome = "return"
    /\ last.result.value.schema_version = SCHEMA_VERSION
    /\ Len(last.result.value.events) >= 1

\* C26: redact_body is idempotent: redacting what redact_body returned
\* gives the same value again.
C26_RedactBodyIdempotent ==
    [][ (last.op = "redact_body" /\ last'.op = "redact_body" /\
         last'.body = last.result)
          => last'.result = last.result ]_vars

C26_Witness ==
    /\ last.op = "redact_body"
    /\ last.body = last.result
    /\ DOMAIN last.body = {"dict"}
    /\ \E k \in DOMAIN last.body.dict :
         /\ DOMAIN last.body.dict[k] = {"list"}
         /\ last.body.dict[k].list[1] \in
              {[str |-> "[REDACTED:EMAIL]"], [str |-> "Bearer [REDACTED]"],
               [str |-> "[REDACTED]"]}

\* C27: redact_headers drops (mode drop) or masks (mode mask) every
\* header whose lower-cased name is sensitive and returns every other
\* header unchanged.
C27_RedactHeaders ==
    [][ last'.op = "redact_headers"
          => LET input == last'.headers
                 result == last'.result
                 sensitive == {"Authorization", "cookie"} \cup
                              last'.additional_sensitive
             IN /\ DOMAIN result \subseteq DOMAIN input
                /\ \A name \in DOMAIN input :
                     IF name \in sensitive
                       THEN IF last'.mode = "drop"
                              THEN name \notin DOMAIN result
                              ELSE /\ name \in DOMAIN result
                                   /\ result[name] = "[REDACTED]"
                       ELSE /\ name \in DOMAIN result
                            /\ result[name] = input[name] ]_vars

C27_Witness ==
    /\ last.op = "redact_headers"
    /\ last.mode = "drop"
    /\ DOMAIN last.headers = HeaderNames
    /\ last.additional_sensitive = {}
    /\ DOMAIN last.result = {"Content-Type", "X-Trace"}

\* C28: constructing a TraceConfig with an invalid mode string, a
\* sample_rate outside [0.0, 1.0] or a negative max_body_kb raises
\* ConfigurationError, and a config that is returned has none of these.
C28_ConfigValidation ==
    [][ last'.op = "TraceConfig"
          => LET args == last'.args
                 result == last'.result
                 invalid ==
                    \/ args.mode \notin {"off", "record", "replay", "RECORD"}
                    \/ args.sample_rate < 0
                    \/ args.sample_rate > 10
                    \/ args.max_body_kb < 0
             IN /\ invalid => /\ result.outcome = "raise"
                              /\ result.error.type = "ConfigurationError"
                /\ result.outcome = "return"
                     => /\ result.value.mode \in {"off", "record", "replay"}
                        /\ result.value.sample_rate \in 0 .. 10
                        /\ result.value.max_body_kb >= 0 ]_vars

C28_Witness ==
    /\ last.op = "TraceConfig"
    /\ last.args.mode = "record"
    /\ last.args.sample_rate = 5
    /\ last.args.max_body_kb = -1
    /\ last.args.store_request_body = "never"
    /\ last.args.compression = "none"
    /\ last.result.outcome = "raise"
    /\ last.result.error.field = "max_body_kb"

\* C24: every body payload that reaches cassette serialization (request
\* body, response body, result body of a dependency event) has passed
\* through redact_body: what is written is a redacted value.
C24_OnlyRedactedBodies ==
    [][ (last'.op = "body_to_dict" /\ "data" \in DOMAIN last'.dict)
          => redact_body(last'.dict.data) = last'.dict.data ]_vars

\* C25: the hash stored in a BodySnapshot is the hash of the original
\* body bytes, also for a body that was truncated.
C25_HashOfOriginalBytes ==
    [][ (last'.op = "capture_body" /\ last'.snapshot # NoBody)
          => last'.snapshot.hash = hash_body(last'.body) ]_vars

\* the handler replayed so far made the calls it made when it was recorded
IsPrefixOf(s, t) == Len(s) <= Len(t) /\ SubSeq(t, 1, Len(s)) = s
SameHandler(calls) == IsPrefixOf(calls, CallsOf(cassette.events))
MockablePlugins == {"http", "redis"}
IsMismatchError(call) ==
    call.outcome = "raise" /\ call.error.type = "ReplayMismatchError"

\* C31: in hybrid replay (strict), a call of a plugin listed in
\* live_plugins goes to the real dependency, and a call of a mocked plugin
\* is served its own recorded event without a mismatch error, also when
\* the cassette interleaves events of the live plugin with the others.
C31_HybridReplay ==
    [][ ( /\ last'.op = "patched_call"
          /\ strict
          /\ Len(config.live_plugins) > 0
          /\ SameHandler(hd_calls')
          /\ \A i \in DOMAIN hd_calls' : hd_calls'[i].plugin \in MockablePlugins )
        => IF InList(last'.call.plugin, config.live_plugins)
             THEN last'.outcome = "live"
             ELSE /\ ~IsMismatchError(last')
                  /\ last'.outcome = "return"
                  /\ returned' = Append(returned, cassette.events[Len(hd_calls')]) ]_vars

\* C32: replaying in strict mode the handler that produced a cassette with
\* db.query events together with http.client events raises no mismatch
\* error and leaves get_unconsumed_events() empty when the handler is done.
C32_EveryRecordedEventConsumed ==
    [][ ( /\ last'.op = "patched_call"
          /\ strict
          /\ config.live_plugins = << >>
          /\ SameHandler(hd_calls')
          /\ \A e \in {cassette.events[i] : i \in DOMAIN cassette.events} :
               e.event_type \in {"db.query", "http.client"}
          /\ \E i, j \in DOMAIN cassette.events :
               /\ cassette.events[i].event_type = "db.query"
               /\ cassette.events[j].event_type = "http.client" )
        => /\ ~IsMismatchError(last')
           /\ hd_calls' = CallsOf(cassette.events)
                => get_unconsumed_events(cassette.events, cursor') = << >> ]_vars

\* C33: in lenient replay an intercepted call of a mocked plugin for which
\* get_next_event returns None (cassette exhausted, or another event type
\* at the cursor) raises no error inside the plugin's replay wrapper.
C33_LenientWrapperHandlesNone ==
    [][ ( /\ last'.op = "patched_call"
          /\ ~strict
          /\ last'.call.plugin \in MockablePlugins
          /\ session_should_mock_plugin(config, last'.call.plugin)
          /\ \/ Exhausted(cursor, cassette.events)
             \/ TypeDiffers(cassette.events[cursor + 1],
                            PluginEventType(last'.call.plugin)) )
        => last'.outcome # "raise" ]_vars

\* a BodySnapshot that persists body data: captured is true and data is set
StoresData(body) == body # NoBody /\ body.captured /\ body.data # NoData

\* C34: in record mode a request or response body is persisted (captured
\* true, with data) only if should_store_body is true for the configured
\* policy and the request's error status.
C34_BodyStoredOnlyIfPolicyAllows ==
    [][ last'.op = "handle_record_bodies"
        => /\ StoresData(last'.request_body)
                => should_store_body(last'.store_request_body, last'.is_error)
           /\ StoresData(last'.response_body)
                => should_store_body(last'.store_response_body, last'.is_error) ]_vars

\* C35: a Cassette returned by to_cassette() is not altered by later
\* operations on the session: a subsequent successful add_event changes
\* neither the cassette's events nor makes stats.total_events differ from
\* the length of its events.
C35_CassetteImmutable ==
    [][ (held # NoCassette /\ last'.op = "add_event" /\ last'.outcome = "ok")
        => /\ CassetteEvents(held', events') = CassetteEvents(held, events)
           /\ held'.stats.total_events = Len(CassetteEvents(held', events')) ]_vars

\* the sessions handler r may have installed
SessionsOf(r) == {SessionOf(r, k) : k \in HandlerKinds}
InApp(r) == req_pc[r] = "in_app"

\* C36: after a record-mode or replay-mode request completes, whether the
\* application returned normally or raised, the current session in the
\* caller's context is the one from before the request began (that of the
\* enclosing handler, or none); no session stays installed after its request.
C36_SessionRestored ==
    /\ [][ last'.op = "reset_session"
           => LET r == last'.request IN
              IF r > 1 /\ InApp(r - 1)
                THEN current_session'[CallerContext] \in SessionsOf(r - 1)
                ELSE current_session'[CallerContext] = NoSession ]_vars
    /\ []( (\A r \in Requests : ~InApp(r))
             => current_session[CallerContext] = NoSession )

C36_Witness ==
    /\ last.op = "reset_session"
    /\ last.outcome = "raise"
    /\ last.request = 2
    /\ InApp(1)
    /\ current_session[CallerContext] = SessionOf(1, "_replay_context")

\* the events of the session as _cassette_to_dict writes them
WrittenEvents(evs) == [i \in DOMAIN evs |-> _event_to_dict(evs[i])]

\* C37: write_cassette never serializes a session that is not finalized: it
\* finalizes the session before to_cassette(), so after write_cassette
\* returns, add_event on that session fails and the written file contains
\* every event the session will ever hold.
C37_WriteFinalizes ==
    /\ [][ last'.op = "write_cassette"
           => finalized' /\ file'.data.events = WrittenEvents(events') ]_vars
    /\ [][ (file # NoFile /\ last'.op = "add_event")
           => last'.outcome = "RuntimeError" /\ events' = events ]_vars
    /\ []( file # NoFile => file.data.events = WrittenEvents(events) )

C37_Witness ==
    /\ last.op = "write_cassette"
    /\ ~last.finalized
    /\ finalized
    /\ Len(events) >= 1
    /\ file # NoFile

\* C38 as stated: with errors_only enabled a cassette is written for a
\* traced request if and only if the request ended in error (the handler
\* raised, or the response status is >= 400); with errors_only disabled a
\* cassette is written for every traced request.
C38_ErrorsOnly_Stated ==
    [][ last'.op = "handle_record"
        => (file' # NoFile) <=>
             ( \/ ~last'.errors_only
               \/ last'.outcome.kind = "raise"
               \/ last'.outcome.status >= 400 ) ]_vars

\* C38, amended: with errors_only enabled a cassette is written if and
\* only if the handler raised an exception derived from Exception or the
\* response status is >= 400; an exception that derives from BaseException
\* only (asyncio.CancelledError, KeyboardInterrupt) does not count as an
\* error. With errors_only disabled a cassette is written for every request.
C38_ErrorsOnly ==
    [][ last'.op = "handle_record"
        => (file' # NoFile) <=>
             ( \/ ~last'.errors_only
               \/ (last'.outcome.kind = "raise" /\ last'.outcome.exc.is_exception)
               \/ last'.outcome.status >= 400 ) ]_vars

C38_Witness ==
    /\ last.op = "handle_record"
    /\ last.errors_only
    /\ last.outcome.kind = "return"
    /\ last.outcome.status = 200
    /\ file = NoFile
    /\ finalized
    /\ Len(events) >= 1

\* C39: for each dependency plugin, after any sequence of enable and
\* disable calls the library's method is the patched wrapper iff the plugin
\* is enabled and the original otherwise: a repeated enable neither wraps
\* the wrapper nor overwrites the saved original, a disable after enable
\* restores the original, a disable without a prior enable changes nothing.
C39_EnableDisable ==
    /\ []( \A p \in PatchingPlugins : \A m \in PluginMethods(p) :
             /\ lib_method[p][m] = IF plugin_enabled[p] THEN Patched ELSE Original
             /\ saved_original[p][m] = IF plugin_enabled[p] THEN Original ELSE None )
    /\ [][ (last'.op = "enable" /\ plugin_enabled[last'.plugin])
           => UNCHANGED patch_vars ]_vars
    /\ [][ (last'.op = "disable" /\ ~plugin_enabled[last'.plugin])
           => UNCHANGED patch_vars ]_vars
    /\ [][ last'.op = "enable" => plugin_enabled'[last'.plugin] ]_vars
    /\ [][ last'.op = "disable" => ~plugin_enabled'[last'.plugin] ]_vars

C39_Witness ==
    /\ last.op = "enable"
    /\ last.was_enabled
    /\ last.plugin = "httpx"
    /\ lib_method["httpx"]["Client.send"] = Patched
    /\ saved_original["httpx"]["Client.send"] = Original
    /\ ~plugin_enabled["motor"]

====
